---- MODULE Spec2Model ----
(***************************************************************************)
(* A model of wisu's core: the sort engine (src/src/common/sort.rs), the   *)
(* tree aggregator (src/src/common/tree.rs), the watch/debounce controller *)
(* and the interactive navigator (src/src/workers/tui.rs).                 *)
(*                                                                         *)
(* Paths are sequences of file names relative to the scan root (the root   *)
(* is <<>>), file names are sequences of character codes, an Option<T> is  *)
(* a sequence of length 0 (None) or 1 (Some), an Ordering is one of the    *)
(* strings "Less", "Equal", "Greater".  Sequences are 1-based, so a Rust   *)
(* index i is the model's i + 1.                                           *)
(***************************************************************************)
EXTENDS Integers, Sequences, FiniteSets, TLC

VARIABLES
    \* sort engine (SpecSort)
    walked,         \* the records the walk yielded so far, in walk order
    opts,           \* the SortOptions of the last sort
    sorted,         \* the result of the last sort
    pcSort,         \* "walk" | "hier"
    \* comparator (SpecCompare)
    cmpA, cmpB,     \* the two entries compared
    cmpOpts,        \* the SortOptions they are compared under
    cmpOut,         \* what the comparator returned
    pcCmp,          \* "input" | "done"
    \* tree aggregator (SpecTree)
    args,           \* the Args of the last Tree::prepare
    built,          \* the records Tree::build received (filtered and sorted)
    infos,          \* the path -> TreeEntry map Tree::build aggregated
    tree,           \* the Tree that Tree::prepare returned
    pcTree,         \* "walk" | "built"
    \* navigator (SpecNav)
    app,            \* the TuiApp
    navOp,          \* the operation that acted last on the app
    pcNav,          \* the position in the loop of run: "top" | "refreshed" | "exit"
    session,        \* history: the search in progress, and the app it started from
    \* watch/debounce controller (SpecWatch)
    now,            \* the clock, in milliseconds
    watch,          \* the watch fields of the TuiApp, with the TreeWatcher's channel
    changeResult,   \* what check_for_changes returned last
    pcWatch,        \* the position in the loop of run: "top" | "rescan"
    hist,           \* history: when events arrived and were collected, signals given
    \* export (SpecExport)
    export          \* one run of export: the root, --out, and what it did so far

sortVars == <<walked, opts, sorted, pcSort>>
cmpVars == <<cmpA, cmpB, cmpOpts, cmpOut, pcCmp>>
treeVars == <<args, built, infos, tree, pcTree>>

navVars == <<app, navOp, pcNav, session>>

watchVars == <<now, watch, changeResult, pcWatch, hist>>

exportVars == <<export>>

vars == <<sortVars, cmpVars, treeVars, navVars, watchVars, exportVars>>

----------------------------------------------------------------------------
(* Bounds *)

\* the number of records one walk yields
MaxEntries == 3

----------------------------------------------------------------------------
(* Strings and paths *)

None == <<>>
Some(x) == <<x>>
IsSome(o) == Len(o) > 0
Unwrap(o) == o[1]

Last(s) == s[Len(s)]
Front(s) == SubSeq(s, 1, Len(s) - 1)

\* Path::parent for a path below the scan root
Parent(p) == Front(p)
\* DirEntry::file_name
FileName(p) == Last(p)
\* DirEntry::depth: the number of components below the scan root
Depth(p) == Len(p)

IsPrefix(p, q) == Len(p) <= Len(q) /\ SubSeq(q, 1, Len(p)) = p
IsStrictAncestor(p, q) == Len(p) < Len(q) /\ IsPrefix(p, q)

CmpNat(x, y) == IF x < y THEN "Less" ELSE IF x > y THEN "Greater" ELSE "Equal"

\* Ordering::reverse
ReverseOrd(o) == IF o = "Less" THEN "Greater" ELSE IF o = "Greater" THEN "Less" ELSE "Equal"

\* str::cmp: lexicographic on the character codes
RECURSIVE StrCmp(_, _)
StrCmp(a, b) ==
    IF a = <<>> /\ b = <<>> THEN "Equal"
    ELSE IF a = <<>> THEN "Less"
    ELSE IF b = <<>> THEN "Greater"
    ELSE IF Head(a) # Head(b) THEN CmpNat(Head(a), Head(b))
    ELSE StrCmp(Tail(a), Tail(b))

IsUpper(c) == c >= 65 /\ c <= 90
IsDigit(c) == c >= 48 /\ c <= 57

\* str::to_lowercase (ASCII range)
ToLowercase(s) == [i \in 1..Len(s) |-> IF IsUpper(s[i]) THEN s[i] + 32 ELSE s[i]]

\* the positions of '.' in a name
DotPositions(name) == {i \in 1..Len(name) : name[i] = 46}

\* Path::extension: the text after the last '.', None when the name has no
\* '.' or only a leading one
Extension(name) ==
    LET ds == DotPositions(name) \ {1} IN
    IF ds = {} THEN None
    ELSE LET d == CHOOSE i \in ds : \A j \in ds : j <= i IN
         Some(SubSeq(name, d + 1, Len(name)))

----------------------------------------------------------------------------
(* natord::compare, the natural-order comparison the Name rule calls *)

\* left-aligned comparison of two digit runs (one of them starts with 0);
\* the result is an Ordering, or the two rests when the runs are equal
RECURSIVE NatDigitsLeft(_, _)
NatDigitsLeft(a, b) ==
    LET da == a # <<>> /\ IsDigit(Head(a))
        db == b # <<>> /\ IsDigit(Head(b))
    IN  IF da /\ db
          THEN IF Head(a) # Head(b) THEN [ord |-> CmpNat(Head(a), Head(b)), a |-> a, b |-> b]
               ELSE NatDigitsLeft(Tail(a), Tail(b))
        ELSE IF da THEN [ord |-> "Greater", a |-> a, b |-> b]
        ELSE IF db THEN [ord |-> "Less", a |-> a, b |-> b]
        ELSE [ord |-> "Equal", a |-> a, b |-> b]

\* right-aligned comparison: the longer digit run is greater, runs of equal
\* length compare by their first difference
RECURSIVE NatDigitsRight(_, _, _)
NatDigitsRight(a, b, lastcmp) ==
    LET da == a # <<>> /\ IsDigit(Head(a))
        db == b # <<>> /\ IsDigit(Head(b))
    IN  IF da /\ db
          THEN NatDigitsRight(Tail(a), Tail(b),
                   IF lastcmp = "Equal" THEN CmpNat(Head(a), Head(b)) ELSE lastcmp)
        ELSE IF da THEN [ord |-> "Greater", a |-> a, b |-> b]
        ELSE IF db THEN [ord |-> "Less", a |-> a, b |-> b]
        ELSE [ord |-> lastcmp, a |-> a, b |-> b]

RECURSIVE NatCompare(_, _)
NatCompare(a, b) ==
    IF a = <<>> /\ b = <<>> THEN "Equal"
    ELSE IF a = <<>> THEN "Less"
    ELSE IF b = <<>> THEN "Greater"
    ELSE IF IsDigit(Head(a)) /\ IsDigit(Head(b))
      THEN LET r == IF Head(a) = 48 \/ Head(b) = 48
                      THEN NatDigitsLeft(a, b)
                      ELSE NatDigitsRight(a, b, "Equal")
           IN  IF r.ord # "Equal" THEN r.ord ELSE NatCompare(r.a, r.b)
    ELSE IF Head(a) # Head(b) THEN CmpNat(Head(a), Head(b))
    ELSE NatCompare(Tail(a), Tail(b))

----------------------------------------------------------------------------
(* Sort options and the comparator (sort.rs) *)

SortType == {"Name", "Size", "Accessed", "Created", "Modified", "Extension"}

SortOptions ==
    [sort_type : SortType, directories_first : BOOLEAN, case_sensitive : BOOLEAN,
     natural_sort : BOOLEAN, reverse : BOOLEAN, dotfiles_first : BOOLEAN]

DefaultSortOptions ==
    [sort_type |-> "Name", directories_first |-> FALSE, case_sensitive |-> FALSE,
     natural_sort |-> FALSE, reverse |-> FALSE, dotfiles_first |-> FALSE]

\* EntryCache::new: what the comparator reads of an entry
EntryCache(entry, options) ==
    LET name == FileName(entry.path) IN
    [is_dir      |-> entry.is_dir,
     is_dotfile  |-> Head(name) = 46,
     size        |-> IF entry.is_dir THEN 0 ELSE entry.len,
     accessed    |-> entry.accessed,
     created     |-> entry.created,
     modified    |-> entry.modified,
     extension   |-> IF options.sort_type = "Extension" THEN Extension(name) ELSE None,
     cached_name |-> name]

\* a faulty rank table: a dotfile ranks before a plain directory
PriorityDotfileBeforeDirectory(is_dotfile, is_dir) ==
    IF is_dotfile /\ is_dir THEN 0
    ELSE IF is_dotfile /\ ~is_dir THEN 1
    ELSE IF ~is_dotfile /\ is_dir THEN 2
    ELSE 3

\* the rank table of compare_file_categories
Priority(is_dotfile, is_dir) ==
    IF is_dotfile /\ is_dir THEN 0
    ELSE IF ~is_dotfile /\ is_dir THEN 1
    ELSE IF is_dotfile /\ ~is_dir THEN 2
    ELSE 3

BoolNat(b) == IF b THEN 1 ELSE 0

\* compare_file_categories: Some(order) when the category decides, else None
CompareFileCategories(cache_a, cache_b, options) ==
    IF options.dotfiles_first
      THEN LET ord == CmpNat(Priority(cache_a.is_dotfile, cache_a.is_dir),
                             Priority(cache_b.is_dotfile, cache_b.is_dir))
           IN  IF ord = "Equal" THEN None ELSE Some(ord)
    ELSE IF options.directories_first
      THEN LET ord == ReverseOrd(CmpNat(BoolNat(cache_a.is_dir), BoolNat(cache_b.is_dir)))
           IN  IF ord = "Equal" THEN None ELSE Some(ord)
    ELSE None

\* a faulty compare_by_cached_name: natural is not looked at
CompareByCachedNameLexicographic(name_a, name_b, natural, case_sensitive) ==
    LET a_str == IF case_sensitive \/ natural THEN name_a ELSE ToLowercase(name_a)
        b_str == IF case_sensitive \/ natural THEN name_b ELSE ToLowercase(name_b)
    IN  StrCmp(a_str, b_str)

\* a faulty compare_by_cached_name: the names are always lower-cased
CompareByCachedNameAlwaysFolded(name_a, name_b, natural, case_sensitive) ==
    LET a_str == ToLowercase(name_a)
        b_str == ToLowercase(name_b)
    IN  IF natural THEN NatCompare(a_str, b_str) ELSE StrCmp(a_str, b_str)

\* compare_by_cached_name
CompareByCachedName(name_a, name_b, natural, case_sensitive) ==
    LET a_str == IF case_sensitive \/ natural THEN name_a ELSE ToLowercase(name_a)
        b_str == IF case_sensitive \/ natural THEN name_b ELSE ToLowercase(name_b)
    IN  IF natural THEN NatCompare(a_str, b_str) ELSE StrCmp(a_str, b_str)

\* a faulty compare_by_time: oldest first
CompareByTimeOldestFirst(time_a, time_b) ==
    IF IsSome(time_a) /\ IsSome(time_b) THEN CmpNat(Unwrap(time_a), Unwrap(time_b))
    ELSE IF IsSome(time_a) THEN "Less"
    ELSE IF IsSome(time_b) THEN "Greater"
    ELSE "Equal"

\* compare_by_time: newest first, a missing time last
CompareByTime(time_a, time_b) ==
    IF IsSome(time_a) /\ IsSome(time_b) THEN CmpNat(Unwrap(time_b), Unwrap(time_a))
    ELSE IF IsSome(time_a) THEN "Less"
    ELSE IF IsSome(time_b) THEN "Greater"
    ELSE "Equal"

\* Option<&str>::unwrap_or("")
UnwrapOrEmpty(o) == IF IsSome(o) THEN Unwrap(o) ELSE <<>>

\* a faulty match on sort_type: equal extensions are left equal
CompareByCriterionExtensionOnly(cache_a, cache_b, options) ==
    CASE options.sort_type = "Name" ->
            CompareByCachedName(cache_a.cached_name, cache_b.cached_name,
                                options.natural_sort, options.case_sensitive)
      [] options.sort_type = "Size" -> CmpNat(cache_a.size, cache_b.size)
      [] options.sort_type = "Accessed" -> CompareByTime(cache_a.accessed, cache_b.accessed)
      [] options.sort_type = "Created" -> CompareByTime(cache_a.created, cache_b.created)
      [] options.sort_type = "Modified" -> CompareByTime(cache_a.modified, cache_b.modified)
      [] options.sort_type = "Extension" ->
            LET ext_a == UnwrapOrEmpty(cache_a.extension)
                ext_b == UnwrapOrEmpty(cache_b.extension)
            IN  IF options.case_sensitive
                  THEN StrCmp(ext_a, ext_b)
                  ELSE StrCmp(ToLowercase(ext_a), ToLowercase(ext_b))

\* the match on sort_type in compare_entries_cached
CompareByCriterion(cache_a, cache_b, options) ==
    CASE options.sort_type = "Name" ->
            CompareByCachedName(cache_a.cached_name, cache_b.cached_name,
                                options.natural_sort, options.case_sensitive)
      [] options.sort_type = "Size" -> CmpNat(cache_a.size, cache_b.size)
      [] options.sort_type = "Accessed" -> CompareByTime(cache_a.accessed, cache_b.accessed)
      [] options.sort_type = "Created" -> CompareByTime(cache_a.created, cache_b.created)
      [] options.sort_type = "Modified" -> CompareByTime(cache_a.modified, cache_b.modified)
      [] options.sort_type = "Extension" ->
            LET ext_a == UnwrapOrEmpty(cache_a.extension)
                ext_b == UnwrapOrEmpty(cache_b.extension)
                ext_cmp == IF options.case_sensitive
                             THEN StrCmp(ext_a, ext_b)
                             ELSE StrCmp(ToLowercase(ext_a), ToLowercase(ext_b))
            IN  IF ext_cmp = "Equal"
                  THEN CompareByCachedName(cache_a.cached_name, cache_b.cached_name,
                                           options.natural_sort, options.case_sensitive)
                  ELSE ext_cmp

\* compare_entries_cached: the category decides first, then the criterion
CompareEntriesCached(cache_a, cache_b, options) ==
    LET cat == CompareFileCategories(cache_a, cache_b, options) IN
    IF IsSome(cat) THEN Unwrap(cat) ELSE CompareByCriterion(cache_a, cache_b, options)

\* a faulty closure: reverse inverts the criterion, not the category
SortClosureCriterionOnly(cache_a, cache_b, options) ==
    LET cat == CompareFileCategories(cache_a, cache_b, options)
        cmp == CompareByCriterion(cache_a, cache_b, options)
    IN  IF IsSome(cat) THEN Unwrap(cat)
        ELSE IF options.reverse THEN ReverseOrd(cmp) ELSE cmp

\* the closure sort_entries hands to sort_unstable_by
SortClosure(cache_a, cache_b, options) ==
    LET cmp == CompareEntriesCached(cache_a, cache_b, options) IN
    IF options.reverse THEN ReverseOrd(cmp) ELSE cmp

----------------------------------------------------------------------------
(* sort_entries: an index sort, then the permutation applied by swaps *)

\* the arrangements of the indices 1..n, for every length a walk can have
AllIndexPermutations ==
    UNION {{p \in [1..n -> 1..n] : \A i, j \in 1..n : p[i] = p[j] => i = j} :
              n \in 0..MaxEntries}

\* what indices.sort_unstable_by may leave in indices: any arrangement of the
\* indices that is non-decreasing under the closure (the order of ties is
\* not specified by an unstable sort)
SortUnstableBy(entries, options) ==
    LET n == Len(entries)
        cache == [i \in 1..n |-> EntryCache(entries[i], options)]
    IN  {p \in AllIndexPermutations :
            /\ Len(p) = n
            /\ \A i \in 1..(n - 1) :
                  SortClosure(cache[p[i]], cache[p[i + 1]], options) # "Greater"}

Swap(s, i, j) == [s EXCEPT ![i] = s[j], ![j] = s[i]]

\* a faulty while loop: every swap is with the start of the cycle
RECURSIVE FollowCycleSwappingStart(_, _, _, _, _)
FollowCycleSwappingStart(entries, visited, indices, start, current) ==
    LET next == indices[current] IN
    IF next # start
      THEN FollowCycleSwappingStart(Swap(entries, start, next),
                                    [visited EXCEPT ![current] = TRUE], indices, start, next)
      ELSE [entries |-> entries, visited |-> [visited EXCEPT ![current] = TRUE]]

\* the while loop of sort_entries: follow one cycle of the permutation
RECURSIVE FollowCycle(_, _, _, _, _)
FollowCycle(entries, visited, indices, start, current) ==
    LET next == indices[current] IN
    IF next # start
      THEN FollowCycle(Swap(entries, current, next), [visited EXCEPT ![current] = TRUE],
                       indices, start, next)
      ELSE [entries |-> entries, visited |-> [visited EXCEPT ![current] = TRUE]]

\* the for loop of sort_entries over the cycle starts
RECURSIVE ApplyCycles(_, _, _, _)
ApplyCycles(entries, visited, indices, start) ==
    IF start > Len(entries) THEN entries
    ELSE IF visited[start] THEN ApplyCycles(entries, visited, indices, start + 1)
    ELSE LET r == FollowCycle(entries, visited, indices, start, start)
         IN  ApplyCycles(r.entries, r.visited, indices, start + 1)

\* sort_entries: the set of slices it may leave
SortEntries(entries, options) ==
    IF Len(entries) <= 1 THEN {entries}
    ELSE {ApplyCycles(entries, [i \in 1..Len(entries) |-> FALSE], indices, 1) :
             indices \in SortUnstableBy(entries, options)}

----------------------------------------------------------------------------
(* sort_entries_hierarchically *)

\* the keys of parent_to_children
ParentPaths(entries) == {Parent(entries[i].path) : i \in 1..Len(entries)}

SiblingsUnder(entries, p) == SelectSeq(entries, LAMBDA e : Parent(e.path) = p)

\* parent_to_children after every group was sorted: one choice of
\* sort_entries' result per parent (keys: the parents still to sort)
RECURSIVE SortedGroups(_, _, _)
SortedGroups(entries, options, keys) ==
    IF keys = {} THEN {<<>>}
    ELSE LET p == CHOOSE k \in keys : TRUE IN
         {(p :> children) @@ rest :
             children \in SortEntries(SiblingsUnder(entries, p), options),
             rest \in SortedGroups(entries, options, keys \ {p})}

ParentToChildren(entries, options) == SortedGroups(entries, options, ParentPaths(entries))

\* collect_tree_recursive, and its loop over the children
RECURSIVE CollectTreeRecursive(_, _)
RECURSIVE CollectChildren(_, _)
\* a faulty collect_tree_recursive: the entry is pushed after its children
CollectTreeRecursiveChildrenFirst(entry, children_map) ==
    (IF entry.path \in DOMAIN children_map
       THEN CollectChildren(children_map[entry.path], children_map)
       ELSE <<>>) \o <<entry>>

\* a faulty collect_tree_recursive: the entry is pushed after its first child
CollectTreeRecursiveAfterFirstChild(entry, children_map) ==
    IF entry.path \in DOMAIN children_map /\ children_map[entry.path] # <<>>
      THEN CollectChildren(<<Head(children_map[entry.path])>>, children_map)
               \o <<entry>>
               \o CollectChildren(Tail(children_map[entry.path]), children_map)
      ELSE <<entry>>

CollectTreeRecursive(entry, children_map) ==
    <<entry>> \o (IF entry.path \in DOMAIN children_map
                    THEN CollectChildren(children_map[entry.path], children_map)
                    ELSE <<>>)

CollectChildren(children, children_map) ==
    IF children = <<>> THEN <<>>
    ELSE CollectTreeRecursive(Head(children), children_map)
             \o CollectChildren(Tail(children), children_map)

\* a faulty sort_entries_hierarchically: all entries sorted as one flat list
SortEntriesHierarchicallyFlat(entries, options) == SortEntries(entries, options)

\* sort_entries_hierarchically: the set of vectors it may leave
SortEntriesHierarchically(entries, options) ==
    IF Len(entries) <= 1 THEN {entries}
    ELSE {CollectChildren(root_entries, children_map) :
             root_entries \in SortEntries(SelectSeq(entries, LAMBDA e : Depth(e.path) = 1), options),
             children_map \in ParentToChildren(entries, options)}

----------------------------------------------------------------------------
(* The walk: the records the entry source may yield (tree.rs, Tree::prepare) *)

\* ".a", "B", "a.t"
WalkNames == {<<46, 97>>, <<66>>, <<97, 46, 116>>}

\* what entry.metadata() gives for a file of each name: its length and its
\* three times (".a" and "a.t" have the same metadata, so sizes and times tie)
MetaOf(name) ==
    IF name = <<66>>
      THEN [len |-> 7, accessed |-> Some(2), created |-> Some(1), modified |-> None]
      ELSE [len |-> 5, accessed |-> Some(1), created |-> Some(2), modified |-> Some(2)]

\* an ignore::DirEntry: its path, its file type and what its metadata gives
DirEntryWith(path, is_dir, meta) ==
    [path |-> path, is_dir |-> is_dir, len |-> meta.len,
     accessed |-> meta.accessed, created |-> meta.created, modified |-> meta.modified]

DirEntry(path, is_dir) == DirEntryWith(path, is_dir, MetaOf(FileName(path)))

PathsOf(entries) == {entries[i].path : i \in 1..Len(entries)}

\* the directories a depth-first walk may still yield a child of: the scan
\* root and the directories on the path to the record yielded last
OpenDirs(entries) ==
    {<<>>} \cup
    (IF entries = <<>> THEN {}
     ELSE {entries[i].path : i \in {j \in 1..Len(entries) :
              entries[j].is_dir /\ IsPrefix(entries[j].path, Last(entries).path)}})

\* the records a walk may yield next
NextRecords(entries) ==
    {e \in {DirEntry(Append(p, n), d) : p \in OpenDirs(entries), n \in WalkNames, d \in BOOLEAN} :
        e.path \notin PathsOf(entries)}

----------------------------------------------------------------------------
(* Args (app.rs): the fields Tree::prepare and Tree::build read *)

\* --files: the per-directory file cap
FileCaps == {None, Some(0), Some(1)}

\* --time: a mode and a threshold
TimeFilters ==
    {None, Some([mode |-> "After", threshold |-> 2]),
           Some([mode |-> "Before", threshold |-> 2])}

\* --exclude: the comma-separated extensions, here none or ".T"
Excludes == {None, Some(<< <<46, 84>> >>)}

\* the Args a run is started with: any content filters (at most one of
\* --time and --exclude), any cap, sorted by name in either direction
Args ==
    {a \in [dirs_only : BOOLEAN, files_only : BOOLEAN, files : FileCaps,
            time : TimeFilters, exclude : Excludes,
            expand_level : {None},
            sort : {"Name"}, reverse : BOOLEAN, dirs_first : {FALSE},
            case_sensitive : {FALSE}, natural_sort : {FALSE}, dotfiles_first : {FALSE}] :
        ~(IsSome(a.time) /\ IsSome(a.exclude))}

DefaultArgs ==
    [dirs_only |-> FALSE, files_only |-> FALSE, files |-> None,
     time |-> None, exclude |-> None, expand_level |-> None,
     sort |-> "Name", reverse |-> FALSE, dirs_first |-> FALSE,
     case_sensitive |-> FALSE, natural_sort |-> FALSE, dotfiles_first |-> FALSE]

\* Args::to_sort_options
ToSortOptions(a) ==
    [sort_type |-> a.sort, directories_first |-> a.dirs_first,
     case_sensitive |-> a.case_sensitive, natural_sort |-> a.natural_sort,
     reverse |-> a.reverse, dotfiles_first |-> a.dotfiles_first]

\* Args::get_excluded_extensions: each piece lowercased, a leading '.' removed
GetExcludedExtensions(a) ==
    IF ~IsSome(a.exclude) THEN {}
    ELSE LET pieces == Unwrap(a.exclude)
             normalized(i) == ToLowercase(pieces[i])
         IN  {IF Head(normalized(i)) = 46 THEN Tail(normalized(i)) ELSE normalized(i) :
                 i \in {j \in 1..Len(pieces) : pieces[j] # <<>>}}

\* Args::is_excluded
IsExcluded(a, path) ==
    IF ~IsSome(a.exclude) THEN FALSE
    ELSE LET ext == Extension(FileName(path)) IN
         IsSome(ext) /\ ToLowercase(Unwrap(ext)) \in GetExcludedExtensions(a)

\* TimeFilter::matches
TimeFilterMatches(time_filter, file_time) ==
    IF time_filter.mode = "After" THEN file_time >= time_filter.threshold
    ELSE file_time < time_filter.threshold

\* file_passes_time_filter
FilePassesTimeFilter(entry, a) ==
    IF ~IsSome(a.time) THEN TRUE
    ELSE IF ~IsSome(entry.modified) THEN FALSE
    ELSE TimeFilterMatches(Unwrap(a.time), Unwrap(entry.modified))

\* should_exclude
ShouldExclude(entry, a) == ~entry.is_dir /\ IsExcluded(a, entry.path)

----------------------------------------------------------------------------
(* Tree::build (tree.rs) *)

ConnectorLast == "+--"
ConnectorContinuation == "|--"

\* TreeEntry::default
TreeEntryDefault ==
    [path |-> <<>>, depth |-> 0, connector |-> ConnectorLast,
     size |-> None, dirs |-> None, files |-> None,
     permissions |-> None, icon |-> None, is_directory |-> FALSE]

\* HashMap::entry(path).or_default() / get(path).unwrap_or_default()
MapGetOrDefault(map, path) == IF path \in DOMAIN map THEN map[path] ELSE TreeEntryDefault
\* HashMap::insert
MapPut(map, key, value) == (key :> value) @@ map

\* Option::get_or_insert, Option::unwrap_or
GetOrInsert(o, v) == IF IsSome(o) THEN o ELSE Some(v)
UnwrapOr(o, v) == IF IsSome(o) THEN Unwrap(o) ELSE v

\* first pass: a file gets its own size and counts, a directory zeroes
RECURSIVE GatherInfo(_, _, _)
GatherInfo(entries, i, map) ==
    IF i > Len(entries) THEN map
    ELSE LET entry == entries[i]
             info == MapGetOrDefault(map, entry.path)
             filled ==
                 IF ~entry.is_dir
                   THEN [info EXCEPT !.is_directory = FALSE, !.files = Some(1),
                                     !.size = Some(entry.len), !.dirs = Some(0)]
                   ELSE [info EXCEPT !.is_directory = TRUE, !.size = GetOrInsert(@, 0),
                                     !.dirs = GetOrInsert(@, 0), !.files = GetOrInsert(@, 0)]
         IN  GatherInfo(entries, i + 1, MapPut(map, entry.path, filled))

\* a faulty propagation: a directory hands no size on to its parent
PropagatedCountsOfFilesOnly(current, is_dir) ==
    [size |-> IF is_dir THEN 0 ELSE UnwrapOr(current.size, 0),
     dirs |-> IF is_dir THEN 1 ELSE 0,
     files |-> IF ~is_dir THEN 1 ELSE 0]

\* what one record adds to its parent: its size, and one directory or file
PropagatedCounts(current, is_dir) ==
    [size |-> UnwrapOr(current.size, 0),
     dirs |-> IF is_dir THEN 1 ELSE 0,
     files |-> IF ~is_dir THEN 1 ELSE 0]

\* second pass, over the records in reverse: each adds to its parent
RECURSIVE PropagateUpward(_, _, _)
PropagateUpward(entries, i, map) ==
    IF i = 0 THEN map
    ELSE LET entry == entries[i]
             parent_path == Parent(entry.path)
             add == PropagatedCounts(MapGetOrDefault(map, entry.path), entry.is_dir)
             parent_info == MapGetOrDefault(map, parent_path)
             updated == [parent_info EXCEPT !.dirs = Some(UnwrapOr(@, 0) + add.dirs),
                                            !.files = Some(UnwrapOr(@, 0) + add.files),
                                            !.size = Some(UnwrapOr(@, 0) + add.size)]
         IN  PropagateUpward(entries, i - 1, MapPut(map, parent_path, updated))

\* a file the cap hides is added to its parent's file count and size
HiddenByCap(map, parent, entry) ==
    IF parent \in DOMAIN map
      THEN MapPut(map, parent, [map[parent] EXCEPT !.files = Some(UnwrapOr(@, 0) + 1),
                                                   !.size = Some(UnwrapOr(@, 0) + entry.len)])
      ELSE map

\* a faulty third pass: the files are counted over the whole tree, not per
\* directory
RECURSIVE FilterEntriesCountingAllFiles(_, _, _, _, _, _)
FilterEntriesCountingAllFiles(entries, i, a, map, files_count_in_dir, filtered_entries) ==
    IF i > Len(entries) THEN [entries |-> filtered_entries, infos |-> map]
    ELSE LET entry == entries[i]
             parent == Parent(entry.path)
             count == IF <<>> \in DOMAIN files_count_in_dir
                        THEN files_count_in_dir[<<>>] ELSE 0
         IN  IF a.files_only /\ entry.is_dir
               THEN FilterEntriesCountingAllFiles(entries, i + 1, a, map, files_count_in_dir,
                                                  filtered_entries)
             ELSE IF ~entry.is_dir /\ IsSome(a.files)
               THEN IF count >= Unwrap(a.files)
                      THEN FilterEntriesCountingAllFiles(entries, i + 1, a,
                               HiddenByCap(map, parent, entry),
                               MapPut(files_count_in_dir, <<>>, count), filtered_entries)
                      ELSE FilterEntriesCountingAllFiles(entries, i + 1, a, map,
                               MapPut(files_count_in_dir, <<>>, count + 1),
                               Append(filtered_entries, entry))
             ELSE FilterEntriesCountingAllFiles(entries, i + 1, a, map, files_count_in_dir,
                                                Append(filtered_entries, entry))

\* third pass: files_only drops the directories, the cap drops the files
\* after the first max of each directory
RECURSIVE FilterEntries(_, _, _, _, _, _)
FilterEntries(entries, i, a, map, files_count_in_dir, filtered_entries) ==
    IF i > Len(entries) THEN [entries |-> filtered_entries, infos |-> map]
    ELSE LET entry == entries[i]
             parent == Parent(entry.path)
             count == IF parent \in DOMAIN files_count_in_dir
                        THEN files_count_in_dir[parent] ELSE 0
         IN  IF a.files_only /\ entry.is_dir
               THEN FilterEntries(entries, i + 1, a, map, files_count_in_dir, filtered_entries)
             ELSE IF ~entry.is_dir /\ IsSome(a.files)
               THEN IF count >= Unwrap(a.files)
                      THEN FilterEntries(entries, i + 1, a, HiddenByCap(map, parent, entry),
                                         MapPut(files_count_in_dir, parent, count),
                                         filtered_entries)
                      ELSE FilterEntries(entries, i + 1, a, map,
                                         MapPut(files_count_in_dir, parent, count + 1),
                                         Append(filtered_entries, entry))
             ELSE FilterEntries(entries, i + 1, a, map, files_count_in_dir,
                                Append(filtered_entries, entry))

\* the depth an entry is displayed at
DisplayDepth(entry, files_only) == IF files_only THEN 1 ELSE Depth(entry.path)

\* no later entry has the same depth and the same parent
IsLast(filtered_entries, i, files_only) ==
    \A j \in (i + 1)..Len(filtered_entries) :
        \/ DisplayDepth(filtered_entries[j], files_only) # DisplayDepth(filtered_entries[i], files_only)
        \/ Parent(filtered_entries[j].path) # Parent(filtered_entries[i].path)

\* the TreeEntry of the i-th kept record (args.permissions and args.icons
\* are off: no permissions, no icon)
TreeInfoOf(filtered_entries, i, a, map) ==
    LET entry == filtered_entries[i]
        info == MapGetOrDefault(map, entry.path)
    IN  [path |-> entry.path,
         depth |-> DisplayDepth(entry, a.files_only),
         connector |-> IF IsLast(filtered_entries, i, a.files_only)
                         THEN ConnectorLast ELSE ConnectorContinuation,
         size |-> info.size, dirs |-> info.dirs, files |-> info.files,
         permissions |-> None, icon |-> None,
         is_directory |-> entry.is_dir]

\* depth_index: for each depth the indices of its entries, in order
DepthIndex(tree_info) ==
    [d \in {tree_info[i].depth : i \in 1..Len(tree_info)} |->
        LET F[i \in 0..Len(tree_info)] ==
                IF i = 0 THEN <<>>
                ELSE IF tree_info[i].depth = d THEN Append(F[i - 1], i) ELSE F[i - 1]
        IN  F[Len(tree_info)]]

\* the map after the first two passes
AggregatedInfos(entries) ==
    PropagateUpward(entries, Len(entries),
                    GatherInfo(entries, 1, (<<>> :> TreeEntryDefault)))

\* Tree::build: the Tree, and the map it was filled from
Build(entries, a) ==
    LET f == FilterEntries(entries, 1, a, AggregatedInfos(entries), <<>>, <<>>)
        tree_info == [i \in 1..Len(f.entries) |-> TreeInfoOf(f.entries, i, a, f.infos)]
    IN  [tree |-> [entries |-> f.entries, tree_info |-> tree_info,
                   depth_index |-> DepthIndex(tree_info)],
         infos |-> f.infos]

----------------------------------------------------------------------------
(* Tree::prune_empty_dirs and Tree::prepare (tree.rs) *)

\* a faulty walk up from a file: only the directory of the file is marked
MarkParentOnly(path, paths_with_files) ==
    IF path = <<>> THEN paths_with_files ELSE paths_with_files \cup {Parent(path)}

\* the walk up from a file: every ancestor is marked, until one is found
\* marked already (ancestors above the scan root are no path of the tree)
RECURSIVE MarkAncestors(_, _)
MarkAncestors(path, paths_with_files) ==
    IF path = <<>> THEN paths_with_files
    ELSE LET parent == Parent(path) IN
         IF parent \in paths_with_files THEN paths_with_files
         ELSE MarkAncestors(parent, paths_with_files \cup {parent})

RECURSIVE PathsWithFiles(_, _, _)
PathsWithFiles(tree_info, i, paths_with_files) ==
    IF i > Len(tree_info) THEN paths_with_files
    ELSE PathsWithFiles(tree_info, i + 1,
             IF ~tree_info[i].is_directory
               THEN MarkAncestors(tree_info[i].path, paths_with_files)
               ELSE paths_with_files)

\* a faulty in-place filter: only the entries are moved, tree_info is
\* truncated as it stands
RECURSIVE CompactEntriesOnly(_, _, _, _)
CompactEntriesOnly(t, paths_with_files, read_idx, kept) ==
    IF read_idx > Len(t.tree_info)
      THEN [kept EXCEPT !.tree_info = SubSeq(t.tree_info, 1, Len(kept.entries))]
    ELSE IF ~t.tree_info[read_idx].is_directory \/ t.tree_info[read_idx].path \in paths_with_files
      THEN CompactEntriesOnly(t, paths_with_files, read_idx + 1,
                   [kept EXCEPT !.entries = Append(@, t.entries[read_idx])])
    ELSE CompactEntriesOnly(t, paths_with_files, read_idx + 1, kept)

\* the in-place filter: read_idx runs over the tree, the kept entries are
\* written at write_idx, the rest is truncated
RECURSIVE Compact(_, _, _, _)
Compact(t, paths_with_files, read_idx, kept) ==
    IF read_idx > Len(t.tree_info) THEN kept
    ELSE IF ~t.tree_info[read_idx].is_directory \/ t.tree_info[read_idx].path \in paths_with_files
      THEN Compact(t, paths_with_files, read_idx + 1,
                   [entries |-> Append(kept.entries, t.entries[read_idx]),
                    tree_info |-> Append(kept.tree_info, t.tree_info[read_idx])])
    ELSE Compact(t, paths_with_files, read_idx + 1, kept)

PruneEmptyDirs(t) ==
    LET kept == Compact(t, PathsWithFiles(t.tree_info, 1, {}), 1,
                        [entries |-> <<>>, tree_info |-> <<>>])
    IN  [entries |-> kept.entries, tree_info |-> kept.tree_info,
         depth_index |-> DepthIndex(kept.tree_info)]

\* the walk loop of Tree::prepare: which records are pushed
KeptByWalkLoop(entry, a) ==
    /\ ~(a.dirs_only /\ ~entry.is_dir)
    /\ ~(IsSome(a.exclude) /\ ShouldExclude(entry, a))
    /\ ~(IsSome(a.time) /\ ~entry.is_dir /\ ~FilePassesTimeFilter(entry, a))

\* the records Tree::prepare may hand to Tree::build
PreparedEntries(walk, a) ==
    LET entries == SelectSeq(walk, LAMBDA entry : KeptByWalkLoop(entry, a)) IN
    IF a.files_only THEN SortEntries(entries, ToSortOptions(a))
    ELSE SortEntriesHierarchically(entries, ToSortOptions(a))

\* Tree::prepare after Tree::build: prune when a filter is on
PreparedTree(t, a) ==
    IF IsSome(a.time) \/ IsSome(a.exclude) THEN PruneEmptyDirs(t) ELSE t

----------------------------------------------------------------------------
(* The interactive navigator: TuiApp (tui.rs).  The model's app is the     *)
(* TuiApp struct, with one more field: panicked, set when an index is out  *)
(* of bounds and the thread panics.                                        *)

\* the icon of the synthetic parent entry: ".."
DotDot == <<46, 46>>

IsBackEntry(e) == e.data.icon = Some(DotDot)

\* Path::parent of an absolute path below the scan root is Some; the parent
\* of the scan root is no path of the tree
HasParentInTree(path) == path # <<>>

Min(x, y) == IF x < y THEN x ELSE y
Max(x, y) == IF x > y THEN x ELSE y
SaturatingSub(x, y) == IF x > y THEN x - y ELSE 0

\* Vec::truncate
Truncate(s, n) == IF Len(s) > n THEN SubSeq(s, 1, n) ELSE s

\* Iterator::position: the first of the indices whose element satisfies the
\* predicate
Position(hits) ==
    IF hits = {} THEN None ELSE Some(CHOOSE i \in hits : \A j \in hits : i <= j)

\* a faulty visibility test: only the nearest ancestor's flag is looked at
StackTopExpanded(stack) == stack = <<>> \/ stack[Len(stack)]

\* parent_expanded_stack.iter().all(|&e| e)
StackAllExpanded(stack) == \A i \in 1..Len(stack) : stack[i]

\* the loop of rebuild_visible_list from entry idx on
RECURSIVE RebuildScan(_, _, _, _)
RebuildScan(a, idx, parent_expanded_stack, visible_indices) ==
    IF idx > Len(a.entries) THEN visible_indices
    ELSE LET entry == a.entries[idx] IN
         IF IsBackEntry(entry)
           THEN RebuildScan(a, idx + 1, parent_expanded_stack, Append(visible_indices, idx))
         ELSE IF a.current_dir = a.root_dir
           THEN LET target_depth == SaturatingSub(entry.data.depth, 1)
                    truncated == Truncate(parent_expanded_stack, target_depth)
                    visible == entry.data.depth = 0 \/ StackAllExpanded(truncated)
                    pushed == IF entry.data.is_directory /\ entry.data.depth > 0
                                THEN Append(truncated, entry.expanded) ELSE truncated
                IN  RebuildScan(a, idx + 1, pushed,
                                IF visible THEN Append(visible_indices, idx) ELSE visible_indices)
         ELSE RebuildScan(a, idx + 1, parent_expanded_stack,
                          IF HasParentInTree(entry.data.path)
                             /\ Parent(entry.data.path) = a.current_dir
                            THEN Append(visible_indices, idx) ELSE visible_indices)

\* rebuild_visible_list
RebuildVisibleList(a) ==
    [a EXCEPT !.filtered_indices = RebuildScan(a, 1, <<>>, <<>>),
              !.list_state = Some(1)]

\* TuiApp::new
NewTuiApp(tree_info, dir) ==
    RebuildVisibleList(
        [entries |-> [i \in 1..Len(tree_info) |-> [data |-> tree_info[i], expanded |-> FALSE]],
         filtered_indices |-> <<>>,
         list_state |-> None,
         mode |-> "Normal",
         search_query |-> <<>>,
         backup_indices |-> <<>>,
         current_dir |-> dir,
         root_dir |-> dir,
         panicked |-> FALSE])

\* get_current_entry: the index of the selected entry, when there is one
GetCurrentEntry(a) ==
    IF ~IsSome(a.list_state) THEN None
    ELSE IF Unwrap(a.list_state) > Len(a.filtered_indices) THEN None
    ELSE IF a.filtered_indices[Unwrap(a.list_state)] > Len(a.entries) THEN None
    ELSE Some(a.filtered_indices[Unwrap(a.list_state)])

\* the position in the visible list of the first entry with the path
PositionOfPath(a, path) ==
    Position({k \in 1..Len(a.filtered_indices) :
                  a.entries[a.filtered_indices[k]].data.path = path})

\* refresh_entries
RefreshEntries(a, new_entries) ==
    LET current == GetCurrentEntry(a)
        expanded_paths == {a.entries[i].data.path : i \in {j \in 1..Len(a.entries) : a.entries[j].expanded}}
        replaced == [a EXCEPT !.entries =
                        [i \in 1..Len(new_entries) |->
                            [data |-> new_entries[i],
                             expanded |-> new_entries[i].path \in expanded_paths]]]
        rebuilt == RebuildVisibleList(replaced)
        pos == IF IsSome(current)
                 THEN PositionOfPath(rebuilt, a.entries[Unwrap(current)].data.path)
                 ELSE None
    IN  IF IsSome(pos) THEN [rebuilt EXCEPT !.list_state = pos] ELSE rebuilt

\* apply_initial_expansion
ApplyInitialExpansion(a, expand_level) ==
    IF ~IsSome(expand_level) THEN a
    ELSE RebuildVisibleList(
             [a EXCEPT !.entries =
                 [i \in 1..Len(a.entries) |->
                     IF a.entries[i].data.is_directory
                        /\ a.entries[i].data.depth < Unwrap(expand_level)
                       THEN [a.entries[i] EXCEPT !.expanded = TRUE]
                       ELSE a.entries[i]]])

\* toggle_expansion
ToggleExpansion(a) ==
    IF ~IsSome(a.list_state) THEN a
    ELSE LET sel_idx == Unwrap(a.list_state) IN
         IF sel_idx > Len(a.filtered_indices) THEN a
         ELSE LET entry_idx == a.filtered_indices[sel_idx] IN
              IF entry_idx > Len(a.entries) THEN [a EXCEPT !.panicked = TRUE]
              ELSE IF ~a.entries[entry_idx].data.is_directory THEN a
              ELSE LET path == a.entries[entry_idx].data.path
                       rebuilt == RebuildVisibleList(
                                      [a EXCEPT !.entries[entry_idx].expanded = ~@])
                       pos == PositionOfPath(rebuilt, path)
                       new_pos == IF IsSome(pos) THEN Unwrap(pos)
                                  ELSE Min(sel_idx, Max(Len(rebuilt.filtered_indices), 1))
                   IN  [rebuilt EXCEPT !.list_state = Some(new_pos)]

\* a faulty move_selection_down: the selection stops at the last entry
MoveSelectionDownNoWrap(a) ==
    IF a.filtered_indices = <<>> THEN a
    ELSE [a EXCEPT !.list_state =
             IF IsSome(@)
               THEN Some(IF Unwrap(@) >= Len(a.filtered_indices) THEN Unwrap(@) ELSE Unwrap(@) + 1)
               ELSE Some(1)]

\* move_selection_down
MoveSelectionDown(a) ==
    IF a.filtered_indices = <<>> THEN a
    ELSE [a EXCEPT !.list_state =
             IF IsSome(@)
               THEN Some(IF Unwrap(@) >= Len(a.filtered_indices) THEN 1 ELSE Unwrap(@) + 1)
               ELSE Some(1)]

\* move_selection_up
MoveSelectionUp(a) ==
    IF a.filtered_indices = <<>> THEN a
    ELSE [a EXCEPT !.list_state =
             IF ~IsSome(@) THEN Some(1)
             ELSE IF Unwrap(@) = 1 THEN Some(Len(a.filtered_indices))
             ELSE Some(Unwrap(@) - 1)]

\* start_search
StartSearch(a) ==
    [a EXCEPT !.backup_indices = IF a.mode = "Normal" THEN a.filtered_indices ELSE @,
              !.mode = "Search",
              !.search_query = <<>>]

\* a faulty exit_search: the list the search left is kept
ExitSearchKeepingFilter(a) ==
    IF a.mode # "Search" THEN a
    ELSE [a EXCEPT !.backup_indices = <<>>,
                   !.mode = "Normal",
                   !.search_query = <<>>]

\* exit_search
ExitSearch(a) ==
    IF a.mode # "Search" THEN a
    ELSE LET restored == a.backup_indices IN
         [a EXCEPT !.filtered_indices = restored,
                   !.backup_indices = <<>>,
                   !.mode = "Normal",
                   !.search_query = <<>>,
                   !.list_state =
                       IF IsSome(@) /\ Unwrap(@) > Len(restored)
                         THEN (IF restored = <<>> THEN None ELSE Some(Len(restored)))
                         ELSE @]

\* str::trim: white space removed at both ends
RECURSIVE TrimStart(_)
TrimStart(s) == IF s # <<>> /\ Head(s) = 32 THEN TrimStart(Tail(s)) ELSE s
RECURSIVE TrimEnd(_)
TrimEnd(s) == IF s # <<>> /\ Last(s) = 32 THEN TrimEnd(Front(s)) ELSE s
Trim(s) == TrimEnd(TrimStart(s))

\* str::contains
Contains(s, sub) ==
    \E i \in 1..(Len(s) - Len(sub) + 1) : SubSeq(s, i, i + Len(sub) - 1) = sub

\* str::starts_with("r:")
StartsWithRegexPrefix(s) == Len(s) >= 2 /\ s[1] = 114 /\ s[2] = 58

\* Regex::new on a pattern of letters, ':' and '(': an unclosed group is an
\* error, anything else is a literal
RegexNew(pattern) ==
    IF \E i \in 1..Len(pattern) : pattern[i] = 40 THEN None ELSE Some(pattern)

\* Regex::is_match of such a literal: it occurs in the text as it is written
RegexIsMatch(re, text) == Contains(text, re)

\* the entries the search looks at: the direct children of current_dir
SearchScope(a) ==
    {i \in 1..Len(a.entries) :
        HasParentInTree(a.entries[i].data.path)
        /\ Parent(a.entries[i].data.path) = a.current_dir}

\* the indices of a set, in increasing order
RECURSIVE InOrder(_)
InOrder(indices) ==
    IF indices = {} THEN <<>>
    ELSE LET m == CHOOSE i \in indices : \A j \in indices : j <= i IN
         Append(InOrder(indices \ {m}), m)

\* a faulty apply_search_filter: a pattern that does not compile filters
\* nothing
ApplySearchFilterInvalidShowsAll(a) ==
    LET raw_query == Trim(a.search_query) IN
    IF raw_query = <<>> THEN RebuildVisibleList(a)
    ELSE LET is_regex == StartsWithRegexPrefix(raw_query)
             query == IF is_regex THEN SubSeq(raw_query, 3, Len(raw_query)) ELSE raw_query
             re == RegexNew(query)
             matches ==
                 IF is_regex
                   THEN IF IsSome(re)
                          THEN {i \in SearchScope(a) :
                                   RegexIsMatch(Unwrap(re), FileName(a.entries[i].data.path))}
                          ELSE SearchScope(a)
                   ELSE {i \in SearchScope(a) :
                            Contains(ToLowercase(FileName(a.entries[i].data.path)),
                                     ToLowercase(query))}
         IN  [a EXCEPT !.filtered_indices = InOrder(matches),
                       !.list_state = IF matches = {} THEN None ELSE Some(1)]

\* a faulty apply_search_filter: the substring test does not fold the case
ApplySearchFilterCaseSensitive(a) ==
    LET raw_query == Trim(a.search_query) IN
    IF raw_query = <<>> THEN RebuildVisibleList(a)
    ELSE LET is_regex == StartsWithRegexPrefix(raw_query)
             query == IF is_regex THEN SubSeq(raw_query, 3, Len(raw_query)) ELSE raw_query
             re == RegexNew(query)
             matches ==
                 IF is_regex
                   THEN IF IsSome(re)
                          THEN {i \in SearchScope(a) :
                                   RegexIsMatch(Unwrap(re), FileName(a.entries[i].data.path))}
                          ELSE {}
                   ELSE {i \in SearchScope(a) :
                            Contains(FileName(a.entries[i].data.path), query)}
         IN  [a EXCEPT !.filtered_indices = InOrder(matches),
                       !.list_state = IF matches = {} THEN None ELSE Some(1)]

\* apply_search_filter
ApplySearchFilter(a) ==
    LET raw_query == Trim(a.search_query) IN
    IF raw_query = <<>> THEN RebuildVisibleList(a)
    ELSE LET is_regex == StartsWithRegexPrefix(raw_query)
             query == IF is_regex THEN SubSeq(raw_query, 3, Len(raw_query)) ELSE raw_query
             re == RegexNew(query)
             matches ==
                 IF is_regex
                   THEN IF IsSome(re)
                          THEN {i \in SearchScope(a) :
                                   RegexIsMatch(Unwrap(re), FileName(a.entries[i].data.path))}
                          ELSE {}
                   ELSE {i \in SearchScope(a) :
                            Contains(ToLowercase(FileName(a.entries[i].data.path)),
                                     ToLowercase(query))}
         IN  [a EXCEPT !.filtered_indices = InOrder(matches),
                       !.list_state = IF matches = {} THEN None ELSE Some(1)]

\* current_dir.parent(): for the scan root a path outside the tree
ParentOfFocus(dir) == IF HasParentInTree(dir) THEN Parent(dir) ELSE <<DotDot>>

\* the synthetic parent entry enter_directory inserts
BackEntry(parent) ==
    [data |-> [path |-> parent, depth |-> 0, connector |-> "",
               size |-> None, dirs |-> None, files |-> None,
               permissions |-> None, icon |-> Some(DotDot), is_directory |-> TRUE],
     expanded |-> FALSE]

\* a faulty enter_directory: an earlier ".." is not removed
EnterDirectoryKeepingBackEntry(a, entry_idx) ==
    IF entry_idx > Len(a.entries) THEN [a EXCEPT !.panicked = TRUE]
    ELSE IF ~a.entries[entry_idx].data.is_directory THEN a
    ELSE LET current_dir == a.entries[entry_idx].data.path
             entries == IF current_dir # a.root_dir /\ HasParentInTree(current_dir)
                          THEN <<BackEntry(Parent(current_dir))>> \o a.entries
                          ELSE a.entries
         IN  RebuildVisibleList([a EXCEPT !.current_dir = current_dir, !.entries = entries])

\* a faulty enter_directory: ".." is added at the scan root too
EnterDirectoryBackEntryAtRoot(a, entry_idx) ==
    IF entry_idx > Len(a.entries) THEN [a EXCEPT !.panicked = TRUE]
    ELSE IF ~a.entries[entry_idx].data.is_directory THEN a
    ELSE LET current_dir == a.entries[entry_idx].data.path
             retained == SelectSeq(a.entries, LAMBDA e : ~IsBackEntry(e))
             entries == <<BackEntry(ParentOfFocus(current_dir))>> \o retained
         IN  RebuildVisibleList([a EXCEPT !.current_dir = current_dir, !.entries = entries])

\* enter_directory
EnterDirectory(a, entry_idx) ==
    IF entry_idx > Len(a.entries) THEN [a EXCEPT !.panicked = TRUE]
    ELSE IF ~a.entries[entry_idx].data.is_directory THEN a
    ELSE LET current_dir == a.entries[entry_idx].data.path
             retained == SelectSeq(a.entries, LAMBDA e : ~IsBackEntry(e))
             entries == IF current_dir # a.root_dir /\ HasParentInTree(current_dir)
                          THEN <<BackEntry(Parent(current_dir))>> \o retained
                          ELSE retained
         IN  RebuildVisibleList([a EXCEPT !.current_dir = current_dir, !.entries = entries])

\* go_up
GoUp(a) ==
    IF a.current_dir = a.root_dir THEN a
    ELSE IF ~HasParentInTree(a.current_dir) THEN a
    ELSE LET back_idx == Position({k \in 1..Len(a.entries) :
                                        a.entries[k].data.path = Parent(a.current_dir)}) IN
         IF IsSome(back_idx) THEN EnterDirectory(a, Unwrap(back_idx)) ELSE a

\* ratatui's List widget as render hands it the list_state: unless the list
\* area is empty, a selection is dropped when there is no item and moved to
\* the last item when it is beyond it
RenderList(selected, items, list_area_is_empty) ==
    IF list_area_is_empty THEN selected
    ELSE IF items = 0 THEN None
    ELSE IF IsSome(selected) /\ Unwrap(selected) > items THEN Some(items)
    ELSE selected

\* render: every visible index is looked up in entries
Render(a, list_area_is_empty) ==
    IF \E k \in 1..Len(a.filtered_indices) : a.filtered_indices[k] > Len(a.entries)
      THEN [a EXCEPT !.panicked = TRUE]
      ELSE [a EXCEPT !.list_state = RenderList(@, Len(a.filtered_indices), list_area_is_empty)]

----------------------------------------------------------------------------
(* The key handlers of run (tui.rs) *)

\* app.filtered_indices[sel_idx] and app.entries[entry_idx] are in bounds
SelectionInBounds(a) ==
    /\ Unwrap(a.list_state) <= Len(a.filtered_indices)
    /\ a.filtered_indices[Unwrap(a.list_state)] <= Len(a.entries)

SelectedIndex(a) == a.filtered_indices[Unwrap(a.list_state)]

\* KeyCode::Right | KeyCode::Left
OnRightLeft(a) ==
    IF ~IsSome(a.list_state) THEN a
    ELSE IF ~SelectionInBounds(a) THEN [a EXCEPT !.panicked = TRUE]
    ELSE IF a.entries[SelectedIndex(a)].data.path # ParentOfFocus(a.current_dir)
      THEN ToggleExpansion(a)
    ELSE a

\* KeyCode::Enter in Normal mode
OnEnter(a) ==
    IF ~IsSome(a.list_state) THEN a
    ELSE IF ~SelectionInBounds(a) THEN [a EXCEPT !.panicked = TRUE]
    ELSE IF a.entries[SelectedIndex(a)].data.path = ParentOfFocus(a.current_dir) THEN GoUp(a)
    ELSE IF a.entries[SelectedIndex(a)].data.is_directory THEN ToggleExpansion(a)
    ELSE a

\* KeyCode::Tab
OnTab(a) ==
    IF ~IsSome(a.list_state) THEN a
    ELSE IF ~SelectionInBounds(a) THEN [a EXCEPT !.panicked = TRUE]
    ELSE LET moved ==
                 IF a.entries[SelectedIndex(a)].data.path = ParentOfFocus(a.current_dir)
                   THEN GoUp(a)
                 ELSE IF a.entries[SelectedIndex(a)].data.is_directory
                   THEN EnterDirectory(a, SelectedIndex(a))
                 ELSE a
         IN  RebuildVisibleList(moved)

\* KeyCode::Char('t') with Control, after the terminal was closed
OnCtrlT(a) == IF IsSome(GetCurrentEntry(a)) THEN RebuildVisibleList(a) ELSE a

\* KeyCode::Char('r'): Tree::prepare, refresh_entries, apply_initial_expansion
OnR(a, new_entries, expand_level) ==
    ApplyInitialExpansion(RefreshEntries(a, new_entries), expand_level)

\* KeyCode::Backspace in Search mode
OnBackspace(a) ==
    ApplySearchFilter([a EXCEPT !.search_query = IF @ = <<>> THEN @ ELSE Front(@)])

\* KeyCode::Char(c) in Search mode
OnChar(a, c) == ApplySearchFilter([a EXCEPT !.search_query = Append(@, c)])

\* KeyCode::Enter in Search mode
OnEnterInSearch(a) ==
    LET current == GetCurrentEntry(a) IN
    IF ~IsSome(current) THEN a
    ELSE IF ~a.entries[Unwrap(current)].data.is_directory THEN a
    ELSE RebuildVisibleList(ExitSearch(EnterDirectory(a, SelectedIndex(a))))

----------------------------------------------------------------------------
(* The directory the navigator runs on, and the keys typed *)

\* the characters typed into a query: "r", ":", "("
QueryChars == {114, 58, 40}

\* the queries typed, character by character: "r", "(", "r:r", "r:("
Queries == {<<114>>, <<40>>, <<114, 58, 114>>, <<114, 58, 40>>}

\* the directory at three moments: d/, d/dr/, d/dr/r, d/R, r; then with only
\* d/ and d/R left; then empty
NavWalks ==
    LET d == <<100>>  dr == <<100, 114>>  r == <<114>>  R == <<82>>
        first == <<DirEntry(<<d>>, TRUE), DirEntry(<<d, dr>>, TRUE), DirEntry(<<d, dr, r>>, FALSE),
                   DirEntry(<<d, R>>, FALSE), DirEntry(<<r>>, FALSE)>>
    IN  {first,
         <<DirEntry(<<d>>, TRUE), DirEntry(<<d, R>>, FALSE)>>,
         <<>>}

\* the tree_info Tree::prepare may return for a walk
PreparedTreeInfos(walk, a) ==
    {PreparedTree(Build(entries, a).tree, a).tree_info : entries \in PreparedEntries(walk, a)}

\* what Tree::prepare returns at those moments (--expand-level is not read
\* by Tree::prepare)
NavTrees == UNION {PreparedTreeInfos(w, DefaultArgs) : w \in NavWalks}

\* --expand-level 2 (without the option apply_initial_expansion does
\* nothing, and the r key is a refresh like the watch's)
ExpandLevels == {Some(2)}

NavArgs == {[DefaultArgs EXCEPT !.expand_level = l] : l \in ExpandLevels}

----------------------------------------------------------------------------
(* Watch/debounce controller: TreeWatcher and TuiApp::check_for_changes *)

\* Duration::from_millis(300), the debounce window
DebounceMs == 300

\* the clock advances by TickMs up to MaxTime; the notify thread sends at
\* most MaxEvents results
TickMs == 100
MaxTime == 800
MaxEvents == 3

\* what the notify thread may send: an error, or an event with its paths
WatchResults ==
    {[ok |-> FALSE, paths |-> <<>>],
     [ok |-> TRUE, paths |-> <<>>],
     [ok |-> TRUE, paths |-> << <<100>> >>],
     [ok |-> TRUE, paths |-> << <<100>>, <<114>> >>]}

\* a faulty collect_changed_paths: an event without paths counts as a change
\* of the watched directory
RECURSIVE CollectChangedPathsMarkingEvents(_)
CollectChangedPathsMarkingEvents(receiver) ==
    IF receiver = <<>> THEN <<>>
    ELSE LET result == Head(receiver)
         IN  (IF ~result.ok THEN <<>>
              ELSE IF result.paths = <<>> THEN << <<>> >>
              ELSE result.paths)
                 \o CollectChangedPathsMarkingEvents(Tail(receiver))

\* TreeWatcher::collect_changed_paths: try_recv until the channel is empty,
\* the paths of the Ok events in order
RECURSIVE CollectChangedPaths(_)
CollectChangedPaths(receiver) ==
    IF receiver = <<>> THEN <<>>
    ELSE LET result == Head(receiver)
         IN  (IF result.ok THEN result.paths ELSE <<>>)
                 \o CollectChangedPaths(Tail(receiver))

\* the HashSet after inserting every path of new_paths
InsertAll(set, new_paths) == set \cup {new_paths[i] : i \in 1..Len(new_paths)}

\* the watch fields TuiApp::new sets
NewWatchState(watcher) ==
    [watcher |-> watcher,
     last_change_detected |-> None,
     pending_changed_paths |-> {},
     watch_status |-> None]

\* a TreeWatcher whose channel is empty
EmptyWatcher == [receiver |-> <<>>]

\* detected_at.elapsed() < Duration::from_millis(300)
DebouncingOneTick(detected_at, t) == t - detected_at < TickMs
DebouncingTwoTicks(detected_at, t) == t - detected_at < 2 * TickMs
StillDebouncing(detected_at, t) == t - detected_at < DebounceMs

\* "Debounce complete, trigger refresh"
DebounceCompleteKeepingPaths(a) ==
    [a EXCEPT !.last_change_detected = None,
              !.watch_status = Some("Refreshing...")]
DebounceCompleteKeepingTimer(a) ==
    [a EXCEPT !.pending_changed_paths = {},
              !.watch_status = Some("Refreshing...")]
DebounceComplete(a) ==
    [a EXCEPT !.pending_changed_paths = {},
              !.last_change_detected = None,
              !.watch_status = Some("Refreshing...")]

\* TuiApp::check_for_changes at the instant t: the app afterwards and the
\* ChangeResult
CheckForChanges(a, t) ==
    IF ~IsSome(a.watcher) THEN [app |-> a, result |-> "None"]
    ELSE
      LET new_paths == CollectChangedPaths(Unwrap(a.watcher).receiver)
          drained == [a EXCEPT !.watcher = Some(EmptyWatcher)]
          observed ==
              IF new_paths # <<>>
                THEN [drained EXCEPT
                        !.pending_changed_paths = InsertAll(@, new_paths),
                        !.last_change_detected = Some(t),
                        !.watch_status = Some("Changes detected...")]
                ELSE drained
      IN  IF observed.pending_changed_paths = {}
            THEN [app |-> observed, result |-> "None"]
          ELSE IF IsSome(observed.last_change_detected)
                  /\ StillDebouncing(Unwrap(observed.last_change_detected), t)
            THEN [app |-> observed, result |-> "Pending"]
          ELSE [app |-> DebounceComplete(observed), result |-> "NeedsRefresh"]

----------------------------------------------------------------------------
(* export (export.rs) *)

\* what the root path is on disk
RootKinds == {"missing", "file", "directory"}

\* "json", "JSON", "xml", "csv", "txt"
OutNames ==
    {<<106, 115, 111, 110>>, <<74, 83, 79, 78>>, <<120, 109, 108>>, <<99, 115, 118>>,
     <<116, 120, 116>>}

\* --out: absent, or a name
Outs == {None} \cup {Some(n) : n \in OutNames}

\* a faulty test of the root: the path exists
PathExists(root) == root # "missing"

\* Path::is_dir: the path exists and is a directory
PathIsDir(root) == root = "directory"

\* OutputFormat::from_str
OutputFormatFromStr(out) ==
    IF ~IsSome(out) THEN None
    ELSE LET name == ToLowercase(Unwrap(out)) IN
         IF name = <<106, 115, 111, 110>> THEN Some("Json")
         ELSE IF name = <<120, 109, 108>> THEN Some("Xml")
         ELSE IF name = <<99, 115, 118>> THEN Some("Csv")
         ELSE None

\* the messages of export
NotADirectoryError == "is not a directory."
InvalidFormatError == "Invalid format"
ExportCompleted == "Export completed"

\* a run of export before its first statement
NewExport(root, out) ==
    [root |-> root, out |-> out, pc |-> "start", scan_started |-> FALSE,
     errors |-> <<>>, printed |-> <<>>, written |-> None]

\* the first statement of export: bail unless the root is a directory,
\* otherwise enter Tree::prepare
ExportGuarded(e) ==
    IF ~PathIsDir(e.root)
      THEN [e EXCEPT !.errors = Append(@, NotADirectoryError), !.pc = "failed"]
      ELSE [e EXCEPT !.scan_started = TRUE, !.pc = "scan"]

\* export after Tree::prepare returned: the format is parsed, the file is
\* written and the completion line printed
ExportWritten(e) ==
    LET format == OutputFormatFromStr(e.out) IN
    IF ~IsSome(format)
      THEN [e EXCEPT !.errors = Append(@, InvalidFormatError), !.pc = "failed"]
      ELSE [e EXCEPT !.written = format, !.printed = Append(@, ExportCompleted),
                     !.pc = "done"]

----------------------------------------------------------------------------
(* SpecSort: a walk, then one sort of what it yielded *)

SortIdle ==
    /\ walked = <<>>
    /\ opts = DefaultSortOptions
    /\ sorted = <<>>
    /\ pcSort = "walk"

NoEntry == DirEntryWith(<<>>, FALSE, [len |-> 0, accessed |-> None, created |-> None, modified |-> None])
NoOutput == [cat |-> None, ord |-> "Equal", closure |-> "Equal"]

CmpIdle ==
    /\ cmpA = NoEntry
    /\ cmpB = NoEntry
    /\ cmpOpts = DefaultSortOptions
    /\ cmpOut = NoOutput
    /\ pcCmp = "idle"

TreeOutputIdle ==
    /\ built = <<>>
    /\ infos = (<<>> :> TreeEntryDefault)
    /\ tree = [entries |-> <<>>, tree_info |-> <<>>, depth_index |-> <<>>]
    /\ pcTree = "walk"

TreeIdle == args = DefaultArgs /\ TreeOutputIdle

\* history: no search started
NoSession == [phase |-> "none", before |-> None, narrowed |-> FALSE, moved |-> FALSE]

NavIdle ==
    /\ app = NewTuiApp(<<>>, <<>>)
    /\ navOp = "new"
    /\ pcNav = "top"
    /\ session = NoSession

NoHistory ==
    [sent |-> 0, arrivedAt |-> <<>>, collectedAt |-> <<>>, refreshes |-> 0,
     polledQuiet |-> FALSE, answered |-> 0]

\* no export was started
ExportIdle ==
    export = [root |-> "directory", out |-> None, pc |-> "idle", scan_started |-> FALSE,
              errors |-> <<>>, printed |-> <<>>, written |-> None]

WatchIdle ==
    /\ now = 0
    /\ watch = NewWatchState(None)
    /\ changeResult = "None"
    /\ pcWatch = "top"
    /\ hist = NoHistory

InitSort == SortIdle /\ CmpIdle /\ TreeIdle /\ NavIdle /\ WatchIdle /\ ExportIdle

\* the walk yields one more record (WalkBuilder, parent before children)
WalkYield ==
    /\ pcSort = "walk"
    /\ pcTree = "walk"
    /\ Len(walked) < MaxEntries
    /\ \E e \in NextRecords(walked) : walked' = Append(walked, e)
    /\ UNCHANGED <<opts, sorted, pcSort>>
    /\ UNCHANGED <<cmpVars, treeVars, navVars, watchVars, exportVars>>

\* Tree::prepare without files_only: sort_entries_hierarchically
SortHierarchically ==
    /\ pcSort = "walk"
    /\ \E o \in SortOptions :
         /\ opts' = o
         /\ sorted' \in SortEntriesHierarchically(walked, o)
    /\ pcSort' = "hier"
    /\ UNCHANGED walked
    /\ UNCHANGED <<cmpVars, treeVars, navVars, watchVars, exportVars>>

NextSort == WalkYield \/ SortHierarchically

SpecSort == InitSort /\ [][NextSort]_vars

----------------------------------------------------------------------------
(* SpecCompare: the comparator applied to two sibling entries *)

\* ".a", "1", "B", "a", "a1", "a10", "a2", "b.T", "c.t"
CompareNames ==
    {<<46, 97>>, <<49>>, <<66>>, <<97>>, <<97, 49>>, <<97, 49, 48>>, <<97, 50>>,
     <<98, 46, 84>>, <<99, 46, 116>>}

\* what entry.metadata() may give: a length and the three times, none of
\* them when the metadata cannot be read
MetaProfiles ==
    {[len |-> 5, accessed |-> Some(1), created |-> Some(2), modified |-> Some(2)],
     [len |-> 7, accessed |-> Some(2), created |-> Some(1), modified |-> None],
     [len |-> 0, accessed |-> None, created |-> None, modified |-> None]}

CompareEntries ==
    {DirEntryWith(<<n>>, d, m) : n \in CompareNames, d \in BOOLEAN, m \in MetaProfiles}

InitCompare ==
    /\ WatchIdle
    /\ ExportIdle
    /\ SortIdle
    /\ TreeIdle
    /\ NavIdle
    /\ cmpA \in CompareEntries
    /\ cmpB \in CompareEntries
    /\ cmpOpts \in SortOptions
    /\ cmpOut = NoOutput
    /\ pcCmp = "input"

\* one call of the closure of sort_entries on the two cached entries
Compare ==
    /\ pcCmp = "input"
    /\ LET cache_a == EntryCache(cmpA, cmpOpts)
           cache_b == EntryCache(cmpB, cmpOpts)
       IN  cmpOut' = [cat |-> CompareFileCategories(cache_a, cache_b, cmpOpts),
                      ord |-> CompareEntriesCached(cache_a, cache_b, cmpOpts),
                      closure |-> SortClosure(cache_a, cache_b, cmpOpts)]
    /\ pcCmp' = "done"
    /\ UNCHANGED <<cmpA, cmpB, cmpOpts>>
    /\ UNCHANGED <<sortVars, treeVars, navVars, watchVars, exportVars>>

NextCompare == Compare

SpecCompare == InitCompare /\ [][NextCompare]_vars

----------------------------------------------------------------------------
(* SpecTree: a walk, then Tree::prepare on what it yielded *)

InitTree == SortIdle /\ CmpIdle /\ TreeIdle /\ NavIdle /\ WatchIdle /\ ExportIdle

\* Tree::prepare: filter, sort, build, prune
Prepare ==
    /\ pcTree = "walk"
    /\ \E a \in Args :
         /\ args' = a
         /\ \E entries \in PreparedEntries(walked, a) :
              LET b == Build(entries, a) IN
              /\ built' = entries
              /\ infos' = b.infos
              /\ tree' = PreparedTree(b.tree, a)
    /\ pcTree' = "built"
    /\ UNCHANGED <<sortVars, cmpVars, navVars, watchVars, exportVars>>

NextTree == WalkYield \/ Prepare

SpecTree == InitTree /\ [][NextTree]_vars

----------------------------------------------------------------------------
(* SpecNav: the loop of run *)

\* run up to the loop: Tree::prepare, TuiApp::new, apply_initial_expansion
InitNav ==
    /\ WatchIdle
    /\ ExportIdle
    /\ SortIdle /\ CmpIdle /\ TreeOutputIdle
    /\ args \in NavArgs
    /\ \E t \in NavTrees : app = ApplyInitialExpansion(NewTuiApp(t, <<>>), args.expand_level)
    /\ navOp = "new"
    /\ pcNav = "top"
    /\ session = NoSession

\* the loop is running
Running == pcNav \in {"top", "refreshed"} /\ ~app.panicked

\* terminal.draw: what render may leave, with a list area that is empty or not
Rendered(a) == {Render(a, list_area_is_empty) : list_area_is_empty \in BOOLEAN}

\* the app after render and the handler of the event read (nothing after a
\* panic)
Handled(rendered, after) == IF rendered.panicked THEN rendered ELSE after

\* the operations that edit the query or move the selection (every pass of
\* the loop renders)
SessionOps == {"render", "char", "backspace", "move_selection_up", "move_selection_down"}

\* history: a search is open from start_search in Normal mode until
\* exit_search, as long as nothing but query edits and selection moves act
SessionAfter(s, op, before, after) ==
    IF after.panicked THEN NoSession
    ELSE IF op = "start_search"
      THEN IF before.mode = "Normal"
             THEN [phase |-> "open", before |-> Some(before), narrowed |-> FALSE, moved |-> FALSE]
             ELSE NoSession
    ELSE IF s.phase = "open" /\ op \in SessionOps
      THEN [s EXCEPT !.narrowed = @ \/ after.filtered_indices # Unwrap(s.before).filtered_indices,
                     !.moved = @ \/ op \in {"move_selection_up", "move_selection_down"}]
    ELSE IF s.phase = "open" /\ op = "exit_search"
      THEN [s EXCEPT !.phase = "closed"]
    ELSE NoSession

\* one pass of the loop from terminal.draw on, with the apps it may leave
Handle(op, outcomes) ==
    /\ app' \in outcomes
    /\ navOp' = op
    /\ pcNav' = "top"
    /\ session' = SessionAfter(session, op, app, app')
    /\ UNCHANGED <<sortVars, cmpVars, treeVars, watchVars, exportVars>>

\* check_for_changes returned NeedsRefresh: Tree::prepare, refresh_entries
WatchRefresh ==
    /\ Running
    /\ pcNav = "top"
    /\ \E t \in NavTrees : app' = RefreshEntries(app, t)
    /\ navOp' = "refresh_entries"
    /\ pcNav' = "refreshed"
    /\ session' = NoSession
    /\ UNCHANGED <<sortVars, cmpVars, treeVars, watchVars, exportVars>>

\* event::poll timed out, or the event is no key press and no scroll
PollTimeout == Running /\ Handle("render", Rendered(app))

\* KeyCode::Up, MouseEventKind::ScrollUp
KeyUp ==
    /\ Running
    /\ Handle("move_selection_up",
              {Handled(r, MoveSelectionUp(r)) : r \in Rendered(app)})

\* KeyCode::Down, MouseEventKind::ScrollDown
KeyDown ==
    /\ Running
    /\ Handle("move_selection_down",
              {Handled(r, MoveSelectionDown(r)) : r \in Rendered(app)})

\* the keys of Search mode (without Control)
KeyBackspace ==
    /\ Running
    /\ app.mode = "Search"
    /\ Handle("backspace",
              {Handled(r, OnBackspace(r)) : r \in Rendered(app)})

KeyChar ==
    /\ Running
    /\ app.mode = "Search"
    /\ \E c \in QueryChars :
          /\ \E q \in Queries : IsPrefix(Append(app.search_query, c), q)
          /\ Handle("char", {Handled(r, OnChar(r, c)) : r \in Rendered(app)})

KeyEsc ==
    /\ Running
    /\ app.mode = "Search"
    /\ Handle("exit_search",
              {Handled(r, ExitSearch(r)) : r \in Rendered(app)})

KeyEnterInSearch ==
    /\ Running
    /\ app.mode = "Search"
    /\ Handle("enter_in_search",
              {Handled(r, OnEnterInSearch(r)) : r \in Rendered(app)})

\* the keys of Normal mode, and of Search mode with Control held
KeyQ ==
    /\ Running
    /\ \E rendered \in Rendered(app) :
          /\ app' = rendered
          /\ navOp' = IF rendered.panicked THEN "render" ELSE "quit"
    /\ pcNav' = "exit"
    /\ session' = NoSession
    /\ UNCHANGED <<sortVars, cmpVars, treeVars, watchVars, exportVars>>

\* Ctrl-s leaves the loop with the selected path, if an entry is selected
KeyCtrlS ==
    /\ Running
    /\ \E rendered \in Rendered(app) :
          /\ app' = rendered
          /\ navOp' = IF rendered.panicked THEN "render" ELSE "print_path"
          /\ pcNav' = IF rendered.panicked \/ IsSome(GetCurrentEntry(rendered))
                        THEN "exit" ELSE "top"
    /\ session' = NoSession
    /\ UNCHANGED <<sortVars, cmpVars, treeVars, watchVars, exportVars>>

KeyR ==
    /\ Running
    /\ \E t \in NavTrees : Handle("refresh_key",
                 {Handled(r, OnR(r, t, args.expand_level)) : r \in Rendered(app)})

KeyRightLeft ==
    /\ Running
    /\ Handle("right_left",
              {Handled(r, OnRightLeft(r)) : r \in Rendered(app)})

KeyEnter ==
    /\ Running
    /\ Handle("enter",
              {Handled(r, OnEnter(r)) : r \in Rendered(app)})

KeyTab ==
    /\ Running
    /\ Handle("tab",
              {Handled(r, OnTab(r)) : r \in Rendered(app)})

KeyCtrlT ==
    /\ Running
    /\ Handle("open_terminal",
              {Handled(r, OnCtrlT(r)) : r \in Rendered(app)})

KeySlash ==
    /\ Running
    /\ Handle("start_search",
              {Handled(r, StartSearch(r)) : r \in Rendered(app)})

NextNav ==
    \/ WatchRefresh \/ PollTimeout
    \/ KeyUp \/ KeyDown
    \/ KeyBackspace \/ KeyChar \/ KeyEsc \/ KeyEnterInSearch
    \/ KeyQ \/ KeyCtrlS \/ KeyR \/ KeyRightLeft \/ KeyEnter \/ KeyTab \/ KeyCtrlT \/ KeySlash

SpecNav == InitNav /\ [][NextNav]_vars

----------------------------------------------------------------------------
(* SpecExport: one run of export on a root that may be no directory *)

InitExport ==
    /\ SortIdle /\ CmpIdle /\ TreeIdle /\ NavIdle /\ WatchIdle
    /\ \E root \in RootKinds, out \in Outs : export = NewExport(root, out)

\* export up to the call of Tree::prepare
ExportGuard ==
    /\ export.pc = "start"
    /\ export' = ExportGuarded(export)
    /\ UNCHANGED <<sortVars, cmpVars, treeVars, navVars, watchVars>>

\* the walk of Tree::prepare yields one more record (a root that is no
\* directory has nothing below it)
ExportWalkYield ==
    /\ export.pc = "scan"
    /\ PathIsDir(export.root)
    /\ Len(walked) < MaxEntries
    /\ \E e \in NextRecords(walked) : walked' = Append(walked, e)
    /\ UNCHANGED <<opts, sorted, pcSort>>
    /\ UNCHANGED <<cmpVars, treeVars, navVars, watchVars, exportVars>>

\* the rest of Tree::prepare (sort, build), then the rest of export
ExportPrepare ==
    /\ export.pc = "scan"
    /\ args' = DefaultArgs
    /\ \E entries \in PreparedEntries(walked, DefaultArgs) :
          LET b == Build(entries, DefaultArgs) IN
          /\ built' = entries
          /\ infos' = b.infos
          /\ tree' = PreparedTree(b.tree, DefaultArgs)
    /\ pcTree' = "built"
    /\ export' = ExportWritten(export)
    /\ UNCHANGED <<sortVars, cmpVars, navVars, watchVars>>

NextExport == ExportGuard \/ ExportWalkYield \/ ExportPrepare

SpecExport == InitExport /\ [][NextExport]_vars

----------------------------------------------------------------------------
(* Sort engine: the claims *)

\* C1: after sort_entries_hierarchically, whatever the criterion, the
\* category flags and the reverse flag, every entry that is an ancestor of
\* another one is positioned before it: no position of the result holds a
\* descendant before its ancestor, and every ancestor/descendant pair of the
\* input is in the result in that order.
C1_AncestorBeforeDescendant ==
    pcSort = "hier" =>
        /\ \A i, j \in 1..Len(sorted) :
              IsStrictAncestor(sorted[i].path, sorted[j].path) => i < j
        /\ \A a, d \in 1..Len(walked) :
              IsStrictAncestor(walked[a].path, walked[d].path) =>
                  \E i, j \in 1..Len(sorted) :
                      i < j /\ sorted[i] = walked[a] /\ sorted[j] = walked[d]

\* a reversed sort that moved a directory, and its child with it
C1_Witness ==
    /\ pcSort = "hier"
    /\ opts.reverse
    /\ sorted # walked
    /\ \E i, j \in 1..Len(sorted) :
          /\ IsStrictAncestor(sorted[i].path, sorted[j].path)
          /\ \E k \in 1..Len(walked) : walked[k] = sorted[i] /\ k # i

\* the four groups as C9 orders them
ClaimedGroup(entry) ==
    LET dot == Head(FileName(entry.path)) = 46 IN
    IF dot /\ entry.is_dir THEN 0
    ELSE IF dot THEN 1
    ELSE IF entry.is_dir THEN 2
    ELSE 3

\* C9: with dotfiles_first and directories_first both set and reverse off,
\* siblings are ordered dotfile-directories, then dotfiles that are not
\* directories, then directories that are not dotfiles, then plain files.
C9_FourGroups ==
    (pcSort = "hier" /\ opts.dotfiles_first /\ opts.directories_first /\ ~opts.reverse) =>
        \A i, j \in 1..Len(sorted) :
            (i < j /\ Parent(sorted[i].path) = Parent(sorted[j].path)) =>
                ClaimedGroup(sorted[i]) <= ClaimedGroup(sorted[j])

\* the rank C10 gives an entry when dotfiles_first is set
ClaimedRank(entry) ==
    LET dot == Head(FileName(entry.path)) = 46 IN
    IF dot /\ entry.is_dir THEN 0
    ELSE IF entry.is_dir THEN 1
    ELSE IF dot THEN 2
    ELSE 3

Reverse(s) == [i \in 1..Len(s) |-> s[Len(s) + 1 - i]]

\* no two of the siblings compare Equal
NoTies(siblings, options) ==
    \A i, j \in 1..Len(siblings) :
        i # j => CompareEntriesCached(EntryCache(siblings[i], options),
                                      EntryCache(siblings[j], options), options) # "Equal"

\* C11: reverse inverts the whole comparison, the category included: the
\* siblings of a parent that have no ties come out of the sort in exactly
\* the opposite order of the sort with the reverse flag flipped; with reverse
\* and directories_first (alone) no directory is before a sibling file.
C11_ReverseInvertsEverything ==
    pcSort = "hier" =>
        /\ \A p \in ParentPaths(walked) :
              LET siblings == SiblingsUnder(walked, p)
                  result == SiblingsUnder(sorted, p)
              IN  NoTies(siblings, opts) =>
                      SortEntries(siblings, [opts EXCEPT !.reverse = ~@]) = {Reverse(result)}
        /\ (opts.reverse /\ opts.directories_first /\ ~opts.dotfiles_first) =>
              \A i, j \in 1..Len(sorted) :
                  (i < j /\ Parent(sorted[i].path) = Parent(sorted[j].path))
                      => ~(sorted[i].is_dir /\ ~sorted[j].is_dir)

\* three siblings without ties, sorted with reverse and directories_first:
\* a file first, a directory last
C11_Witness ==
    /\ pcSort = "hier"
    /\ opts.reverse /\ opts.directories_first /\ ~opts.dotfiles_first
    /\ Len(sorted) = 3
    /\ \A i \in 1..3 : Depth(sorted[i].path) = 1
    /\ NoTies(walked, opts)
    /\ ~sorted[1].is_dir /\ sorted[3].is_dir
    /\ sorted # walked

\* the digits a name ends with, and the text before them
DigitSuffixStart(name) ==
    LET starts == {i \in 1..(Len(name) + 1) : \A j \in i..Len(name) : IsDigit(name[j])}
    IN  CHOOSE i \in starts : \A k \in starts : i <= k
AlphaPrefix(name) == SubSeq(name, 1, DigitSuffixStart(name) - 1)
DigitSuffix(name) == SubSeq(name, DigitSuffixStart(name), Len(name))

\* the number a digit run denotes
RECURSIVE DigitsValue(_)
DigitsValue(digits) ==
    IF digits = <<>> THEN 0
    ELSE 10 * DigitsValue(Front(digits)) + (Last(digits) - 48)

\* files "a10", "a2", "a1" with the same metadata
NumberedFiles ==
    LET meta == [len |-> 5, accessed |-> Some(1), created |-> Some(2), modified |-> Some(2)]
    IN  <<DirEntryWith(<< <<97, 49, 48>> >>, FALSE, meta),
          DirEntryWith(<< <<97, 50>> >>, FALSE, meta),
          DirEntryWith(<< <<97, 49>> >>, FALSE, meta)>>

\* C12: with sort by Name, natural_sort orders names that differ in a
\* trailing number by the number (a1 < a2 < a10) and without natural_sort
\* they are ordered character by character (a1 < a10 < a2).
C12_NaturalSortOrdering ==
    (pcCmp = "done" /\ cmpOpts.sort_type = "Name" /\ cmpOut.cat = None) =>
        LET name_a == FileName(cmpA.path)
            name_b == FileName(cmpB.path)
            numbered == /\ DigitSuffix(name_a) # <<>> /\ DigitSuffix(name_b) # <<>>
                        /\ AlphaPrefix(name_a) = AlphaPrefix(name_b)
            by_number == [cmpOpts EXCEPT !.natural_sort = TRUE, !.reverse = FALSE]
            by_char == [cmpOpts EXCEPT !.natural_sort = FALSE, !.reverse = FALSE]
        IN  /\ (numbered /\ cmpOpts.natural_sort) =>
                  cmpOut.ord = CmpNat(DigitsValue(DigitSuffix(name_a)),
                                      DigitsValue(DigitSuffix(name_b)))
            /\ (numbered /\ ~cmpOpts.natural_sort) =>
                  cmpOut.ord = StrCmp(DigitSuffix(name_a), DigitSuffix(name_b))
            /\ numbered =>
                  /\ SortEntries(NumberedFiles, by_number)
                        = {<<NumberedFiles[3], NumberedFiles[2], NumberedFiles[1]>>}
                  /\ SortEntries(NumberedFiles, by_char)
                        = {<<NumberedFiles[3], NumberedFiles[1], NumberedFiles[2]>>}

\* a2 against a10 under natural_sort: Less, where the characters say Greater
C12_Witness ==
    /\ pcCmp = "done"
    /\ cmpOpts.sort_type = "Name"
    /\ cmpOpts.natural_sort
    /\ cmpOut.cat = None
    /\ FileName(cmpA.path) = <<97, 50>>
    /\ FileName(cmpB.path) = <<97, 49, 48>>
    /\ cmpOut.ord = "Less"
    /\ StrCmp(FileName(cmpA.path), FileName(cmpB.path)) = "Greater"

\* digits 0, upper-case letters 1, lower-case letters 2, other characters 3
CharClass(c) ==
    IF IsDigit(c) THEN 0
    ELSE IF IsUpper(c) THEN 1
    ELSE IF c >= 97 /\ c <= 122 THEN 2
    ELSE 3

\* C13: the Name rule lower-cases both names before comparing exactly when
\* neither case_sensitive nor natural_sort is set; with either set the names
\* are compared as written, so that with case_sensitive a name starting with
\* a digit sorts before one starting with an upper-case letter, which sorts
\* before one starting with a lower-case letter.
C13_CaseFoldedUnlessFlagged ==
    (pcCmp = "done" /\ cmpOpts.sort_type = "Name" /\ cmpOut.cat = None) =>
        LET name_a == FileName(cmpA.path)
            name_b == FileName(cmpB.path)
            class_a == CharClass(Head(name_a))
            class_b == CharClass(Head(name_b))
        IN  /\ (~cmpOpts.case_sensitive /\ ~cmpOpts.natural_sort) =>
                  cmpOut.ord = StrCmp(ToLowercase(name_a), ToLowercase(name_b))
            /\ (cmpOpts.case_sensitive /\ ~cmpOpts.natural_sort) =>
                  /\ cmpOut.ord = StrCmp(name_a, name_b)
                  /\ (class_a < 3 /\ class_b < 3 /\ class_a # class_b) =>
                        cmpOut.ord = CmpNat(class_a, class_b)
            /\ cmpOpts.natural_sort =>
                  cmpOut.ord = NatCompare(name_a, name_b)

\* "B" against "a" with case_sensitive: Less as written, Greater lower-cased
C13_Witness ==
    /\ pcCmp = "done"
    /\ cmpOpts.sort_type = "Name"
    /\ cmpOpts.case_sensitive /\ ~cmpOpts.natural_sort
    /\ cmpOut.cat = None
    /\ FileName(cmpA.path) = <<66>>
    /\ FileName(cmpB.path) = <<97>>
    /\ cmpOut.ord = "Less"
    /\ StrCmp(ToLowercase(FileName(cmpA.path)), ToLowercase(FileName(cmpB.path))) = "Greater"

\* the timestamp the criterion reads of an entry
TimeOf(entry, sort_type) ==
    CASE sort_type = "Accessed" -> entry.accessed
      [] sort_type = "Created" -> entry.created
      [] sort_type = "Modified" -> entry.modified

\* C14: with sort by Accessed, Created or Modified, reverse off and the
\* category not deciding, the entry with the later timestamp sorts first,
\* an entry without the timestamp sorts after every entry that has one, and
\* two entries without it compare equal.
C14_NewestFirstMissingLast ==
    (/\ pcCmp = "done"
     /\ cmpOpts.sort_type \in {"Accessed", "Created", "Modified"}
     /\ ~cmpOpts.reverse
     /\ cmpOut.cat = None) =>
        LET time_a == TimeOf(cmpA, cmpOpts.sort_type)
            time_b == TimeOf(cmpB, cmpOpts.sort_type)
        IN  /\ (IsSome(time_a) /\ IsSome(time_b)) =>
                  /\ Unwrap(time_a) > Unwrap(time_b) => cmpOut.closure = "Less"
                  /\ Unwrap(time_a) < Unwrap(time_b) => cmpOut.closure = "Greater"
                  /\ Unwrap(time_a) = Unwrap(time_b) => cmpOut.closure = "Equal"
            /\ (IsSome(time_a) /\ ~IsSome(time_b)) => cmpOut.closure = "Less"
            /\ (~IsSome(time_a) /\ IsSome(time_b)) => cmpOut.closure = "Greater"
            /\ (~IsSome(time_a) /\ ~IsSome(time_b)) => cmpOut.closure = "Equal"

\* sort by Accessed: the entry accessed later sorts before the one accessed
\* earlier
C14_Witness ==
    /\ pcCmp = "done"
    /\ cmpOpts.sort_type = "Accessed"
    /\ ~cmpOpts.reverse
    /\ cmpOut.cat = None
    /\ cmpA.accessed = Some(2)
    /\ cmpB.accessed = Some(1)
    /\ cmpOut.closure = "Less"

\* the extension of an entry's name as C15 compares it: the text after the
\* last '.', nothing for a name without one
ClaimedExtension(entry, case_sensitive) ==
    LET ext == UnwrapOrEmpty(Extension(FileName(entry.path)))
    IN  IF case_sensitive THEN ext ELSE ToLowercase(ext)

\* C15: with sort by Extension and the category not deciding, entries are
\* ordered by extension (lower-cased unless case_sensitive is set, a missing
\* extension being the empty string), and entries whose extensions compare
\* equal are ordered as the Name criterion orders them.
C15_ExtensionThenName ==
    (pcCmp = "done" /\ cmpOpts.sort_type = "Extension" /\ cmpOut.cat = None) =>
        LET by_extension == StrCmp(ClaimedExtension(cmpA, cmpOpts.case_sensitive),
                                   ClaimedExtension(cmpB, cmpOpts.case_sensitive))
            by_name == [cmpOpts EXCEPT !.sort_type = "Name"]
        IN  cmpOut.ord = IF by_extension # "Equal" THEN by_extension
                         ELSE CompareByCriterion(EntryCache(cmpA, by_name),
                                                 EntryCache(cmpB, by_name), by_name)

\* "b.T" against "c.t" without case_sensitive: the extensions tie, the names
\* decide
C15_Witness ==
    /\ pcCmp = "done"
    /\ cmpOpts.sort_type = "Extension"
    /\ ~cmpOpts.case_sensitive
    /\ cmpOut.cat = None
    /\ FileName(cmpA.path) = <<98, 46, 84>>
    /\ FileName(cmpB.path) = <<99, 46, 116>>
    /\ cmpOut.ord = "Less"

\* the arrangements of a sequence
Arrangements(s) ==
    {[i \in 1..Len(s) |-> s[p[i]]] : p \in {q \in AllIndexPermutations : Len(q) = Len(s)}}

\* C16: the sorted order is determined by the set of entries and the
\* options: however the siblings of a parent are arranged in the input, the
\* sort has one result, the order they have in the output.
C16_OrderDeterminedBySet ==
    pcSort = "hier" =>
        \A p \in ParentPaths(walked) :
            \A arranged \in Arrangements(SiblingsUnder(walked, p)) :
                SortEntries(arranged, opts) = {SiblingsUnder(sorted, p)}

\* the entries of a sequence
Elements(s) == {s[i] : i \in 1..Len(s)}

\* the sequence with the element of index indices[k] at position k
Permuted(s, indices) == [k \in 1..Len(s) |-> s[indices[k]]]

\* the index permutations of a sequence
IndexPermutationsOf(s) == {p \in AllIndexPermutations : Len(p) = Len(s)}

\* non-decreasing under the closure of sort_entries
OrderedByClosure(s, options) ==
    \A i \in 1..(Len(s) - 1) :
        SortClosure(EntryCache(s[i], options), EntryCache(s[i + 1], options), options) # "Greater"

\* C28: what sort_entries leaves is a permutation of its input, ordered
\* non-decreasingly by the comparator (inverted when reverse is set), and
\* applying an index permutation by cycle-following swaps leaves at every
\* position k the entry that was at indices[k], for every permutation.
\* (The swaps are checked on the walk with every permutation of its indices,
\* the result on every group of siblings the hierarchical sort sorted.)
C28_SortEntriesPermutesBySwaps ==
    pcSort = "hier" =>
        /\ \A indices \in IndexPermutationsOf(walked) :
              ApplyCycles(walked, [i \in 1..Len(walked) |-> FALSE], indices, 1)
                  = Permuted(walked, indices)
        /\ \A p \in ParentPaths(walked) :
              LET input == SiblingsUnder(walked, p)
                  result == SiblingsUnder(sorted, p)
              IN  /\ Len(result) = Len(input)
                  /\ Elements(result) = Elements(input)
                  /\ OrderedByClosure(result, opts)

\* three siblings that the sort rotated: a permutation that is one cycle of
\* length three
C28_Witness ==
    /\ pcSort = "hier"
    /\ \E p \in ParentPaths(walked) :
          LET input == SiblingsUnder(walked, p) IN
          /\ Len(input) = 3
          /\ SiblingsUnder(sorted, p) = <<input[2], input[3], input[1]>>

\* the positions of the entries below the entry at position i
DescendantPositions(s, i) ==
    {j \in 1..Len(s) : IsStrictAncestor(s[i].path, s[j].path)}

\* C39: on a walk (every entry deeper than 1 has its parent in the input)
\* sort_entries_hierarchically returns the input entries, each once, in
\* pre-order: every entry is immediately followed by the block of all its
\* descendants, and of two children of one parent the earlier is not greater
\* than the later under the flat comparator.
C39_PreOrderOfSortedSiblings ==
    pcSort = "hier" =>
        /\ \A k \in 1..Len(walked) :
              Depth(walked[k].path) > 1 => Parent(walked[k].path) \in PathsOf(walked)
        /\ Len(sorted) = Len(walked)
        /\ \A k \in 1..Len(walked) :
              Cardinality({i \in 1..Len(sorted) : sorted[i] = walked[k]}) = 1
        /\ \A i \in 1..Len(sorted) :
              DescendantPositions(sorted, i)
                  = (i + 1)..(i + Cardinality(DescendantPositions(sorted, i)))
        /\ \A i, j \in 1..Len(sorted) :
              (i < j /\ Parent(sorted[i].path) = Parent(sorted[j].path)) =>
                  SortClosure(EntryCache(sorted[i], opts), EntryCache(sorted[j], opts), opts)
                      # "Greater"

\* a directory and its child were moved behind a sibling of the directory:
\* the child still follows its parent at once
C39_Witness ==
    /\ pcSort = "hier"
    /\ Len(sorted) = 3
    /\ sorted # walked
    /\ Depth(sorted[1].path) = 1
    /\ sorted[2].is_dir
    /\ Parent(sorted[3].path) = sorted[2].path
    /\ walked[1] = sorted[2]

----------------------------------------------------------------------------
(* Tree aggregator: the claims *)

\* the records build received come parent before children
IsPreOrder(entries) ==
    \A i, j \in 1..Len(entries) :
        IsStrictAncestor(entries[i].path, entries[j].path) => i < j

\* the indices of the file / directory records below a path, at any depth
DescendantFiles(entries, path) ==
    {i \in 1..Len(entries) : ~entries[i].is_dir /\ IsStrictAncestor(path, entries[i].path)}
DescendantDirs(entries, path) ==
    {i \in 1..Len(entries) : entries[i].is_dir /\ IsStrictAncestor(path, entries[i].path)}

RECURSIVE SumOfSizes(_, _)
SumOfSizes(entries, indices) ==
    IF indices = {} THEN 0
    ELSE LET i == CHOOSE k \in indices : TRUE IN
         entries[i].len + SumOfSizes(entries, indices \ {i})

\* the directory entries of the tree
TreeDirectories == {i \in 1..Len(tree.tree_info) : tree.tree_info[i].is_directory}

\* C2: in the Tree built from a parent-before-children record sequence with
\* no per-directory file cap, the recorded size of every directory entry is
\* the sum of the sizes of all the file records below it, at any depth (0
\* when there is none).
C2_DirectorySizeIsRecursiveSum ==
    (pcTree = "built" /\ ~IsSome(args.files) /\ IsPreOrder(built)) =>
        \A i \in TreeDirectories :
            tree.tree_info[i].size =
                Some(SumOfSizes(built, DescendantFiles(built, tree.tree_info[i].path)))

\* a directory whose size comes from a file two levels below it
C2_Witness ==
    /\ pcTree = "built" /\ ~IsSome(args.files) /\ IsPreOrder(built)
    /\ \E i \in TreeDirectories :
          /\ \E j \in DescendantFiles(built, tree.tree_info[i].path) :
                Len(built[j].path) = Len(tree.tree_info[i].path) + 2
          /\ tree.tree_info[i].size = Some(5)

\* C3: in the Tree built (from a parent-before-children record sequence, no
\* cap), the recorded file-count of every directory is the number of file
\* records below it at any depth, and its dir-count the number of directory
\* records below it at any depth.
C3_RecursiveCounts ==
    (pcTree = "built" /\ ~IsSome(args.files) /\ IsPreOrder(built)) =>
        \A i \in TreeDirectories :
            LET info == tree.tree_info[i] IN
            /\ info.files = Some(Cardinality(DescendantFiles(built, info.path)))
            /\ info.dirs = Some(Cardinality(DescendantDirs(built, info.path)))

\* C4: with a per-directory file cap, the size and the file-count recorded
\* for every directory are what they are without the cap.
C4_CapConservation ==
    (pcTree = "built" /\ IsSome(args.files)) =>
        \A i \in TreeDirectories :
            LET info == tree.tree_info[i]
                uncapped == Build(built, [args EXCEPT !.files = None]).infos[info.path]
            IN  info.size = uncapped.size /\ info.files = uncapped.files

\* entries and tree_info run in parallel
ParallelArrays(t) ==
    /\ Len(t.entries) = Len(t.tree_info)
    /\ \A i \in 1..Len(t.tree_info) : t.tree_info[i].path = t.entries[i].path

\* the Tree that Tree::build returned to Tree::prepare
BuiltTree == Build(built, args).tree

\* C22: in every Tree returned by build and by prune_empty_dirs, entries
\* and tree_info have the same length and tree_info[i].path is
\* entries[i].path at every index.
C22_EntriesAndInfoParallel ==
    pcTree = "built" =>
        /\ ParallelArrays(BuiltTree)
        /\ ParallelArrays(PruneEmptyDirs(BuiltTree))
        /\ ParallelArrays(tree)

\* the pruning pass ran and removed a directory that came before a kept entry
C22_Witness ==
    /\ pcTree = "built"
    /\ tree = PruneEmptyDirs(BuiltTree)
    /\ \E i \in 1..Len(BuiltTree.entries) :
          /\ i <= Len(tree.entries)
          /\ BuiltTree.entries[i].is_dir
          /\ tree.entries[i] # BuiltTree.entries[i]

\* C23 as it is claimed: in a Tree built after the hierarchical sort,
\* between two entries with the same parent there is no entry with another
\* parent.
C23_SameParentContiguous ==
    (pcTree = "built" /\ ~args.files_only) =>
        \A i, k, j \in 1..Len(tree.entries) :
            (i < k /\ k < j /\ Parent(tree.entries[i].path) = Parent(tree.entries[j].path))
                => Parent(tree.entries[k].path) = Parent(tree.entries[i].path)

\* C23, as the pre-order allows it: in a Tree built after the hierarchical
\* sort, an entry between two entries with the same parent has that parent
\* too or is below an entry with that parent that lies between the two (the
\* first included): the siblings are contiguous up to their own subtrees.
C23_SameParentContiguousUpToSubtrees ==
    (pcTree = "built" /\ ~args.files_only) =>
        \A i, k, j \in 1..Len(tree.entries) :
            (i < k /\ k < j /\ Parent(tree.entries[i].path) = Parent(tree.entries[j].path))
                => \/ Parent(tree.entries[k].path) = Parent(tree.entries[i].path)
                   \/ \E s \in i..(k - 1) :
                         /\ Parent(tree.entries[s].path) = Parent(tree.entries[i].path)
                         /\ IsStrictAncestor(tree.entries[s].path, tree.entries[k].path)

\* two entries of one directory with the child of the first between them
C23_Witness ==
    /\ pcTree = "built" /\ ~args.files_only
    /\ \E i, k, j \in 1..Len(tree.entries) :
          /\ i < k /\ k < j
          /\ Parent(tree.entries[i].path) = Parent(tree.entries[j].path)
          /\ Parent(tree.entries[k].path) = tree.entries[i].path

\* a file entry of the tree lies below the path, at any depth
HasFileBelow(t, path) ==
    \E j \in 1..Len(t.tree_info) :
        ~t.tree_info[j].is_directory /\ IsStrictAncestor(path, t.tree_info[j].path)

\* the indices of a tree that are files or directories with a file below
Survivors(t) ==
    {i \in 1..Len(t.tree_info) :
        ~t.tree_info[i].is_directory \/ HasFileBelow(t, t.tree_info[i].path)}

\* C24: after prune_empty_dirs a directory entry is in the tree if and only
\* if a file entry that is its strict descendant, at any depth, is in the
\* tree; every file entry is kept and the kept entries are in the order they
\* had.  (So the walk up from a file, which stops at an ancestor that is
\* marked already, leaves no ancestor of a file unmarked.)
C24_PruneKeepsDirectoriesWithFiles ==
    pcTree = "built" =>
        LET t == BuiltTree
            pruned == PruneEmptyDirs(t)
            kept == InOrder(Survivors(t))
        IN  /\ pruned.tree_info = [k \in 1..Len(kept) |-> t.tree_info[kept[k]]]
            /\ pruned.entries = [k \in 1..Len(kept) |-> t.entries[kept[k]]]
            /\ \A i \in 1..Len(pruned.tree_info) :
                  pruned.tree_info[i].is_directory
                      => HasFileBelow(pruned, pruned.tree_info[i].path)
            /\ (IsSome(args.time) \/ IsSome(args.exclude)) => tree = pruned

\* the pruning pass ran; it removed a directory and kept another one
C24_Witness ==
    /\ pcTree = "built"
    /\ IsSome(args.time) \/ IsSome(args.exclude)
    /\ Len(tree.tree_info) < Len(BuiltTree.tree_info)
    /\ \E i \in 1..Len(tree.tree_info) : tree.tree_info[i].is_directory

\* the direct files of a directory, in the order of the sequence
DirectFiles(entries, dir) == SelectSeq(entries, LAMBDA e : ~e.is_dir /\ Parent(e.path) = dir)

\* the directories of a sequence, in its order
Directories(entries) == SelectSeq(entries, LAMBDA e : e.is_dir)

\* C29: with a per-directory file cap N, for every directory the files the
\* tree lists are the first min(N, k) of its k direct files in the order
\* build received them; the cap drops no directory and leaves the kept
\* entries in the order they had.
C29_CapKeepsFirstFiles ==
    (pcTree = "built" /\ IsSome(args.files)) =>
        LET kept == BuiltTree.entries
            uncapped == Build(built, [args EXCEPT !.files = None]).tree.entries
        IN  /\ \A dir \in ParentPaths(built) :
                  LET files == DirectFiles(built, dir) IN
                  DirectFiles(kept, dir) = SubSeq(files, 1, Min(Unwrap(args.files), Len(files)))
            /\ Directories(kept) = Directories(uncapped)
            /\ kept = SelectSeq(built, LAMBDA e : e \in Elements(kept))

\* a directory with two files under a cap of one: the second is not listed
C29_Witness ==
    /\ pcTree = "built" /\ args.files = Some(1)
    /\ \E dir \in ParentPaths(built) :
          /\ Len(DirectFiles(built, dir)) = 2
          /\ DirectFiles(BuiltTree.entries, dir) = <<DirectFiles(built, dir)[1]>>
          /\ Directories(BuiltTree.entries) # <<>>

\* no later entry of the tree has the depth and the parent of entry i
LastAmongSiblings(t, i) ==
    \A j \in (i + 1)..Len(t.tree_info) :
        \/ t.tree_info[j].depth # t.tree_info[i].depth
        \/ Parent(t.tree_info[j].path) # Parent(t.tree_info[i].path)

\* C30: in the Tree that Tree::prepare returns, also when the pruning pass
\* ran, an entry carries the last-sibling connector if and only if no later
\* entry of the sequence has the same display depth and the same parent;
\* every other entry carries the continuation connector.
C30_ConnectorMarksLastSibling ==
    pcTree = "built" =>
        \A i \in 1..Len(tree.tree_info) :
            tree.tree_info[i].connector =
                IF LastAmongSiblings(tree, i) THEN ConnectorLast ELSE ConnectorContinuation

\* the paths of the directories the walk yielded
WalkedDirectories == {walked[i].path : i \in {j \in 1..Len(walked) : walked[j].is_dir}}

\* C31: with dirs_only (and not files_only) the tree Tree::prepare returns
\* holds no file entry and holds every directory the walk yielded, also when
\* a time or extension filter is on; with files_only it holds no directory
\* entry and every entry has display depth 1.
C31_DirsOnlyFilesOnly ==
    pcTree = "built" =>
        /\ (args.dirs_only /\ ~args.files_only) =>
              /\ \A i \in 1..Len(tree.tree_info) : tree.tree_info[i].is_directory
              /\ WalkedDirectories = {tree.tree_info[i].path : i \in 1..Len(tree.tree_info)}
        /\ args.files_only =>
              \A i \in 1..Len(tree.tree_info) :
                  ~tree.tree_info[i].is_directory /\ tree.tree_info[i].depth = 1

----------------------------------------------------------------------------
(* export: the claims *)

\* C25: when the root path does not exist or is not a directory, export
\* fails with a single error, which says that the path is not a directory,
\* before a scan is started or a tree is built, and nothing is printed or
\* written.
C25_NotADirectoryFailsFirst ==
    (export.pc \notin {"idle", "start"} /\ export.root # "directory") =>
        /\ export.pc = "failed"
        /\ export.errors = <<NotADirectoryError>>
        /\ ~export.scan_started
        /\ walked = <<>>
        /\ pcTree = "walk"
        /\ built = <<>>
        /\ export.printed = <<>>
        /\ export.written = None

\* export was called on a path that does not exist, with a valid --out
C25_Witness ==
    /\ export.pc = "failed"
    /\ export.root = "missing"
    /\ IsSome(OutputFormatFromStr(export.out))
    /\ export.errors # <<>>

----------------------------------------------------------------------------
(* Navigator: the claims *)

\* the visible list holds the entry index
IsVisibleIn(indices, idx) == \E k \in 1..Len(indices) : indices[k] = idx

\* every directory above the entry, below the scan root, is expanded
AncestorsExpanded(a, idx) ==
    \A j \in 1..Len(a.entries) :
        (a.entries[j].data.is_directory
         /\ IsStrictAncestor(a.entries[j].data.path, a.entries[idx].data.path))
            => a.entries[j].expanded

\* the operations that end in rebuild_visible_list, whatever the state
RebuildOps == {"new", "refresh_entries", "refresh_key"}

\* C5: after rebuild_visible_list with the focus at the scan root an entry
\* is visible if and only if every directory that is a strict ancestor of
\* it is expanded; with the focus in a subdirectory a real entry is visible
\* if and only if its parent is the focused path; and flipping the expanded
\* flag of one directory changes the visibility of its descendants only.
C5_VisibleIffAncestorsExpanded ==
    ~app.panicked =>
        LET visible == RebuildVisibleList(app).filtered_indices
            real == {i \in 1..Len(app.entries) : ~IsBackEntry(app.entries[i])}
        IN  /\ navOp \in RebuildOps => app.filtered_indices = visible
            /\ app.current_dir = app.root_dir =>
                 \A idx \in 1..Len(app.entries) :
                     IsVisibleIn(visible, idx) <=> AncestorsExpanded(app, idx)
            /\ app.current_dir # app.root_dir =>
                 \A idx \in real :
                     IsVisibleIn(visible, idx)
                         <=> Parent(app.entries[idx].data.path) = app.current_dir
            /\ \A k \in {i \in real : app.entries[i].data.is_directory} :
                 LET flipped == RebuildVisibleList(
                                    [app EXCEPT !.entries[k].expanded = ~@]).filtered_indices
                 IN  \A idx \in 1..Len(app.entries) :
                         ~IsStrictAncestor(app.entries[k].data.path, app.entries[idx].data.path)
                             => (IsVisibleIn(flipped, idx) <=> IsVisibleIn(visible, idx))

\* at the scan root, d collapsed by a key while d/dr is expanded: d/dr/r is
\* hidden although its parent is expanded
C5_Witness ==
    /\ navOp = "right_left"
    /\ ~app.panicked
    /\ app.current_dir = app.root_dir
    /\ app.filtered_indices = RebuildVisibleList(app).filtered_indices
    /\ \E i, j, k \in 1..Len(app.entries) :
          /\ IsStrictAncestor(app.entries[i].data.path, app.entries[j].data.path)
          /\ IsStrictAncestor(app.entries[j].data.path, app.entries[k].data.path)
          /\ ~app.entries[i].expanded /\ app.entries[j].expanded
          /\ IsVisibleIn(app.filtered_indices, i)
          /\ ~IsVisibleIn(app.filtered_indices, j)
          /\ ~IsVisibleIn(app.filtered_indices, k)

\* the path of the selected entry, when there is one
SelectedPath(a) ==
    IF IsSome(GetCurrentEntry(a))
      THEN Some(a.entries[Unwrap(GetCurrentEntry(a))].data.path) ELSE None

PathsIn(a) == {a.entries[i].data.path : i \in 1..Len(a.entries)}
ExpandedPaths(a) == {a.entries[i].data.path : i \in {j \in 1..Len(a.entries) : a.entries[j].expanded}}

\* C8: after refresh_entries, the path selected before is the selected path
\* if the new list still has it, and a directory is expanded if and only if
\* it was expanded before.
C8_RefreshKeepsSelectionAndExpansion ==
    [][(navOp' = "refresh_entries" /\ pcNav' = "refreshed") =>
          /\ (IsSome(SelectedPath(app)) /\ Unwrap(SelectedPath(app)) \in PathsIn(app'))
                => SelectedPath(app') = SelectedPath(app)
          /\ ExpandedPaths(app') = ExpandedPaths(app) \cap PathsIn(app')]_vars

\* the visible list holds the synthetic parent-reference entry
BackEntryVisible(a) ==
    \E k \in 1..Len(a.filtered_indices) :
        /\ a.filtered_indices[k] <= Len(a.entries)
        /\ IsBackEntry(a.entries[a.filtered_indices[k]])

\* C17: in Normal mode, whenever the focused directory is not the scan root
\* the visible list contains the synthetic parent-reference entry.
C17_BackEntryVisibleBelowRoot ==
    (~app.panicked /\ app.mode = "Normal" /\ app.current_dir # app.root_dir)
        => BackEntryVisible(app)

\* C18: whenever the navigator is in Normal mode, the visible-index list is
\* the list rebuild_visible_list computes from the current entries, expansion
\* flags and focus.
C18_VisibleListNeverStale ==
    (~app.panicked /\ app.mode = "Normal")
        => app.filtered_indices = RebuildVisibleList(app).filtered_indices

\* a selection beyond the end of a list of n items moved to the last item
\* (dropped when there is no item)
ClampSelection(selected, n) ==
    IF IsSome(selected) /\ Unwrap(selected) > n
      THEN (IF n = 0 THEN None ELSE Some(n))
      ELSE selected

\* C19: from Normal mode, start_search, then query edits and selection moves
\* only, then exit_search: the navigator is in Normal mode with an empty
\* query, the visible list is the one of before start_search, the entries,
\* their expansion flags and the focus are unchanged, and the selection is
\* the one exit_search found, moved to the last index if it was beyond the
\* restored list.
C19_SearchRoundTrip ==
    [][(session.phase = "open" /\ session'.phase = "closed") =>
          LET before == Unwrap(session.before)
              restored == before.filtered_indices
          IN  /\ app'.mode = "Normal"
              /\ app'.search_query = <<>>
              /\ app'.filtered_indices = restored
              /\ app'.entries = before.entries
              /\ app'.current_dir = before.current_dir
              /\ app'.list_state \in
                     {ClampSelection(r.list_state, Len(restored)) : r \in Rendered(app)}
              /\ IsSome(app'.list_state) => Unwrap(app'.list_state) <= Len(restored)]_vars

\* a search that narrowed the list of a directory with entries, moved the
\* selection and was left with Esc
C19_Witness ==
    /\ session.phase = "closed"
    /\ session.narrowed
    /\ session.moved
    /\ navOp = "exit_search"
    /\ app.filtered_indices # <<>>

\* the query is r:<pattern> and the pattern does not compile
InvalidRegexQuery(q) ==
    LET raw_query == Trim(q) IN
    /\ StartsWithRegexPrefix(raw_query)
    /\ ~IsSome(RegexNew(SubSeq(raw_query, 3, Len(raw_query))))

\* C20: in Search mode, a query edit that leaves a query r:<pattern> whose
\* pattern is not a valid regular expression leaves the visible list empty
\* and nothing selected, without an error, and leaves the mode, the entries
\* with their expansion flags and the focus as they were.
C20_InvalidRegexMatchesNothing ==
    [][(/\ navOp' \in {"char", "backspace"}
        /\ app'.search_query # app.search_query
        /\ InvalidRegexQuery(app'.search_query)) =>
          /\ ~app'.panicked
          /\ app'.filtered_indices = <<>>
          /\ app'.list_state = None
          /\ app'.mode = "Search"
          /\ app'.mode = app.mode
          /\ app'.entries = app.entries
          /\ app'.current_dir = app.current_dir
          /\ app'.root_dir = app.root_dir]_vars

\* the query "r:(" typed in a directory that has entries to search
C20_Witness ==
    /\ navOp = "char"
    /\ ~app.panicked
    /\ app.mode = "Search"
    /\ InvalidRegexQuery(app.search_query)
    /\ SearchScope(app) # {}
    /\ app.filtered_indices = <<>>

\* move_selection_down, move_selection_up applied k times
RECURSIVE DownTimes(_, _)
DownTimes(a, k) == IF k = 0 THEN a ELSE DownTimes(MoveSelectionDown(a), k - 1)
RECURSIVE UpTimes(_, _)
UpTimes(a, k) == IF k = 0 THEN a ELSE UpTimes(MoveSelectionUp(a), k - 1)

\* the selection is an index of the visible list
ValidSelection(a) ==
    IsSome(a.list_state) /\ Unwrap(a.list_state) \in 1..Len(a.filtered_indices)

\* what the claim says of a move from the app r that render left: i + 1 or
\* i - 1 modulo n (positions counted from 1), nothing else changed, and the
\* round trips; nothing at all on an empty list
MovedCircularly(r, after, step) ==
    LET n == Len(r.filtered_indices) IN
    IF n = 0 THEN after = r
    ELSE ValidSelection(r) =>
           /\ after = [r EXCEPT !.list_state = Some(((Unwrap(r.list_state) - 1 + step) % n) + 1)]
           /\ DownTimes(r, n) = r
           /\ UpTimes(r, n) = r
           /\ MoveSelectionUp(MoveSelectionDown(r)) = r
           /\ MoveSelectionDown(MoveSelectionUp(r)) = r

\* C21: with n > 0 visible entries and a valid selection i,
\* move_selection_down selects (i + 1) mod n and move_selection_up selects
\* (i - 1) mod n, n moves in one direction come back to the start and a down
\* followed by an up is the identity; on an empty visible list neither
\* changes anything.
C21_SelectionMovesCircularly ==
    [][/\ (navOp' = "move_selection_down" /\ ~app'.panicked) =>
              \E r \in Rendered(app) : ~r.panicked /\ MovedCircularly(r, app', 1)
       /\ (navOp' = "move_selection_up" /\ ~app'.panicked) =>
              \E r \in Rendered(app) : ~r.panicked /\ MovedCircularly(r, app', -1)]_vars

\* a move down from the last of several visible entries: the first is selected
C21_Witness ==
    /\ navOp = "move_selection_down"
    /\ ~app.panicked
    /\ Len(app.filtered_indices) >= 2
    /\ app.list_state = Some(1)
    /\ UpTimes(app, 1).list_state = Some(Len(app.filtered_indices))

\* C26: after any sequence of navigator operations the selection is absent
\* or an index of the visible list, so that the indexing of the visible list
\* by the selection in the event loop is in bounds.
C26_SelectionInBounds ==
    ~app.panicked =>
        (IsSome(app.list_state) => Unwrap(app.list_state) \in 1..Len(app.filtered_indices))

\* C27: after any sequence of navigator operations, a refresh_entries in
\* Search mode followed by exit_search included, every index of the visible
\* list is an index of the entry list.
C27_VisibleIndicesValid ==
    ~app.panicked =>
        \A k \in 1..Len(app.filtered_indices) : app.filtered_indices[k] \in 1..Len(app.entries)

\* the selection points to a directory entry
DirectorySelected(a) ==
    /\ IsSome(GetCurrentEntry(a))
    /\ a.entries[Unwrap(GetCurrentEntry(a))].data.is_directory

\* b is a with the expansion flag of the selected entry flipped and the
\* visible list and the selection derived again
FlippedSelected(a, b) ==
    LET idx == Unwrap(GetCurrentEntry(a)) IN
    /\ b.entries = [a.entries EXCEPT ![idx].expanded = ~a.entries[idx].expanded]
    /\ SelectedPath(b) = SelectedPath(a)
    /\ [b EXCEPT !.entries = a.entries, !.filtered_indices = a.filtered_indices,
                 !.list_state = a.list_state] = a

\* C33 as stated: toggle_expansion on a selected directory flips only that
\* entry's flag and leaves the selection on the same path; on a
\* non-directory, or with no entry selected, it changes nothing; applied
\* twice it restores the flags and the visible list.
C33_ToggleFlipsSelectedOnly ==
    ~app.panicked =>
        LET once == ToggleExpansion(app)
            twice == ToggleExpansion(once)
        IN  IF DirectorySelected(app)
              THEN /\ FlippedSelected(app, once)
                   /\ twice.entries = app.entries
                   /\ twice.filtered_indices = app.filtered_indices
              ELSE once = app

\* the entries that are no synthetic ".." entry, in order
RealEntries(a) == SelectSeq(a.entries, LAMBDA e : ~IsBackEntry(e))

\* the positions of the synthetic ".." entries
BackEntryPositions(a) == {i \in 1..Len(a.entries) : IsBackEntry(a.entries[i])}

\* b differs from a in nothing but the focus, the synthetic entry and the
\* derived visible list and selection; it has one synthetic entry, the first
\* entry, if its focus is not the scan root, and none if it is
OnlyFocusMoved(a, b) ==
    /\ RealEntries(b) = RealEntries(a)
    /\ [b EXCEPT !.current_dir = a.current_dir, !.entries = a.entries,
                 !.filtered_indices = a.filtered_indices,
                 !.list_state = a.list_state] = a
    /\ BackEntryPositions(b) = IF b.current_dir # b.root_dir THEN {1} ELSE {}

OccursIn(text, name) ==
    \E i \in 1..Len(name), j \in 0..Len(name) :
        j - i + 1 = Len(text) /\ (text = <<>> \/ SubSeq(name, i, j) = text)

\* the file name matches the trimmed query: as a regular expression after
\* "r:" (a pattern that does not compile matches nothing), otherwise as a
\* substring without regard to case
NameMatches(name, q) ==
    IF Len(q) >= 2 /\ SubSeq(q, 1, 2) = <<114, 58>>
      THEN LET pattern == SubSeq(q, 3, Len(q)) IN
           /\ IsSome(RegexNew(pattern))
           /\ RegexIsMatch(Unwrap(RegexNew(pattern)), name)
      ELSE OccursIn(ToLowercase(q), ToLowercase(name))

\* the entries directly under the focused directory whose name matches
MatchingChildren(a, q) ==
    {i \in 1..Len(a.entries) :
        /\ ~IsBackEntry(a.entries[i])
        /\ Len(a.entries[i].data.path) = Len(a.current_dir) + 1
        /\ IsPrefix(a.current_dir, a.entries[i].data.path)
        /\ NameMatches(FileName(a.entries[i].data.path), q)}

\* C35: after apply_search_filter with a query that is not empty when
\* trimmed, the visible list is the indices, in entry order, of exactly the
\* entries directly under the focused directory whose file name matches the
\* query, whatever the expansion flags; the ".." entry and deeper
\* descendants are not in it; with an empty query the list is the one
\* rebuild_visible_list derives.
C35_SearchListsMatchingChildren ==
    (navOp \in {"char", "backspace"} /\ ~app.panicked) =>
        LET q == Trim(app.search_query) IN
        IF q = <<>>
          THEN /\ app.filtered_indices = RebuildVisibleList(app).filtered_indices
               /\ app.list_state = Some(1)
          ELSE /\ \A k \in 1..(Len(app.filtered_indices) - 1) :
                     app.filtered_indices[k] < app.filtered_indices[k + 1]
               /\ {app.filtered_indices[k] : k \in 1..Len(app.filtered_indices)}
                      = MatchingChildren(app, q)

\* below the scan root, with a collapsed directory and a file as children:
\* the query "r" lists both, the directory's content and ".." are left out
C35_Witness ==
    /\ navOp = "char"
    /\ ~app.panicked
    /\ app.search_query = <<114>>
    /\ app.current_dir # app.root_dir
    /\ BackEntryPositions(app) = {1}
    /\ Len(app.filtered_indices) = 2
    /\ \E i \in 1..Len(app.entries) :
          /\ IsStrictAncestor(app.current_dir, app.entries[i].data.path)
          /\ ~IsVisibleIn(app.filtered_indices, i)
    /\ \E k \in 1..2 : FileName(app.entries[app.filtered_indices[k]].data.path) = <<82>>

\* the path is the scan root or lies below it: the root is a prefix of it
\* and no component leads outside the tree
AtOrBelowRoot(path, root) ==
    /\ IsPrefix(root, path)
    /\ \A i \in 1..Len(path) : path[i] # DotDot

\* C36: the focused directory is always the scan root or a descendant of it.
C36_FocusAtOrBelowRoot ==
    ~app.panicked => AtOrBelowRoot(app.current_dir, app.root_dir)

\* Enter in Search mode has moved the focus into a directory directly under
\* the scan root
C36_Witness ==
    /\ navOp = "enter_in_search"
    /\ ~app.panicked
    /\ app.mode = "Normal"
    /\ Len(app.current_dir) = Len(app.root_dir) + 1
    /\ AtOrBelowRoot(app.current_dir, app.root_dir)
    /\ BackEntryPositions(app) = {1}
    /\ app.entries[1].data.path = app.root_dir

----------------------------------------------------------------------------
(* SpecWatch: the notify thread sends, the clock advances, the loop polls *)

InitWatch ==
    /\ SortIdle /\ CmpIdle /\ TreeIdle /\ NavIdle /\ ExportIdle
    /\ now = 0
    /\ watch \in {NewWatchState(None), NewWatchState(Some(EmptyWatcher))}
    /\ changeResult = "None"
    /\ pcWatch = "top"
    /\ hist = NoHistory

\* the event carries at least one path
CarriesPath(result) == result.ok /\ result.paths # <<>>

\* time passes
Tick ==
    /\ now + TickMs <= MaxTime
    /\ now' = now + TickMs
    /\ UNCHANGED <<watch, changeResult, pcWatch, hist>>
    /\ UNCHANGED <<sortVars, cmpVars, treeVars, navVars, exportVars>>

\* the notify thread sends a result on the channel
Send ==
    /\ IsSome(watch.watcher)
    /\ hist.sent < MaxEvents
    /\ \E result \in WatchResults :
          /\ watch' = [watch EXCEPT !.watcher =
                          Some([receiver |-> Append(Unwrap(@).receiver, result)])]
          /\ hist' = [hist EXCEPT
                        !.sent = @ + 1,
                        !.arrivedAt = IF CarriesPath(result) THEN Append(@, now) ELSE @]
    /\ UNCHANGED <<now, changeResult, pcWatch>>
    /\ UNCHANGED <<sortVars, cmpVars, treeVars, navVars, exportVars>>

\* the top of the loop of run: check_for_changes
PollWatch ==
    /\ pcWatch = "top"
    /\ LET checked == CheckForChanges(watch, now)
           queued == IF IsSome(watch.watcher)
                       THEN SelectSeq(Unwrap(watch.watcher).receiver, CarriesPath)
                       ELSE <<>>
           collected == hist.collectedAt \o [i \in 1..Len(queued) |-> now]
       IN  /\ watch' = checked.app
           /\ changeResult' = checked.result
           /\ pcWatch' = IF checked.result = "NeedsRefresh" THEN "rescan" ELSE "top"
           /\ hist' = [hist EXCEPT
                         !.collectedAt = collected,
                         !.refreshes = IF checked.result = "NeedsRefresh" THEN @ + 1 ELSE @,
                         !.answered = IF checked.result = "NeedsRefresh"
                                        THEN Len(hist.arrivedAt) ELSE @,
                         !.polledQuiet = @ \/ (/\ Len(hist.arrivedAt) = 1
                                               /\ Len(collected) = 1
                                               /\ now - collected[1] >= DebounceMs)]
    /\ UNCHANGED now
    /\ UNCHANGED <<sortVars, cmpVars, treeVars, navVars, exportVars>>

\* a faulty rescan: the events that arrived during it are drained
\* (TreeWatcher::drain_events) when it is done
RescanDrainingEvents ==
    /\ pcWatch = "rescan"
    /\ watch' = [watch EXCEPT !.watcher = Some(EmptyWatcher),
                              !.watch_status = Some("Updated")]
    /\ pcWatch' = "top"
    /\ UNCHANGED <<now, changeResult, hist>>
    /\ UNCHANGED <<sortVars, cmpVars, treeVars, navVars, exportVars>>

\* NeedsRefresh: Tree::prepare and refresh_entries, during which the loop
\* does not poll (the scanned directory is empty here; SpecNav has the
\* effect of refresh_entries on the entries)
Rescan ==
    /\ pcWatch = "rescan"
    /\ watch' = [watch EXCEPT !.watch_status = Some("Updated")]
    /\ pcWatch' = "top"
    /\ UNCHANGED <<now, changeResult, hist>>
    /\ UNCHANGED <<sortVars, cmpVars, treeVars, navVars, exportVars>>

NextWatch == Tick \/ Send \/ PollWatch \/ Rescan

SpecWatch == InitWatch /\ [][NextWatch]_vars

----------------------------------------------------------------------------
(* SpecWatchFair: the loop keeps running and the clock has no last instant *)

\* an Instant one tick later, seen from a clock whose reading is kept at
\* now: only the time elapsed since an Instant is ever read, and only
\* compared with DebounceMs, so an Instant DebounceMs or more back stays
\* where it is
Rebased(t) ==
    IF now - t >= DebounceMs THEN t ELSE Max(t - TickMs, now - DebounceMs)

\* time passes, without an end: the clock's reading stays and the Instants
\* kept move back
Elapse ==
    /\ watch' = [watch EXCEPT !.last_change_detected =
                     IF IsSome(@) THEN Some(Rebased(Unwrap(@))) ELSE @]
    /\ hist' = [hist EXCEPT
                  !.arrivedAt = [i \in 1..Len(hist.arrivedAt) |-> Rebased(hist.arrivedAt[i])],
                  !.collectedAt = [i \in 1..Len(hist.collectedAt) |-> Rebased(hist.collectedAt[i])]]
    /\ UNCHANGED <<now, changeResult, pcWatch>>
    /\ UNCHANGED <<sortVars, cmpVars, treeVars, navVars, exportVars>>

NextWatchFair == Elapse \/ Send \/ PollWatch \/ Rescan

\* the loop of run comes back to check_for_changes after at most the 100ms
\* of event::poll, Tree::prepare returns, and time passes; the notify
\* thread owes nothing (it sends MaxEvents results at most)
SpecWatchFair ==
    /\ InitWatch
    /\ [][NextWatchFair]_vars
    /\ WF_vars(Elapse)
    /\ WF_vars(PollWatch)
    /\ WF_vars(Rescan)

----------------------------------------------------------------------------
(* Watch/debounce controller: the claims *)

\* every event with a path that arrived was collected and answered
Settled ==
    /\ Len(hist.collectedAt) = Len(hist.arrivedAt)
    /\ watch.pending_changed_paths = {}

\* the events with a path that arrived so far arrived within one window
Burst ==
    /\ hist.arrivedAt # <<>>
    /\ hist.arrivedAt[Len(hist.arrivedAt)] - hist.arrivedAt[1] < DebounceMs

\* C6: N >= 1 events with a path that all arrive within one 300ms window
\* get NeedsRefresh exactly once, however the polls are interleaved with the
\* arrivals: never more than once, and once when all are answered.
C6_BurstRefreshedOnce ==
    Burst => /\ hist.refreshes <= 1
             /\ Settled => hist.refreshes = 1

\* three events at three instants of one window, collected by different
\* polls, answered together
C6_Witness ==
    /\ Burst
    /\ Settled
    /\ Len(hist.arrivedAt) = 3
    /\ hist.arrivedAt[1] < hist.arrivedAt[2]
    /\ hist.arrivedAt[2] < hist.arrivedAt[3]
    /\ hist.collectedAt[1] < hist.collectedAt[2]
    /\ hist.collectedAt[2] < hist.collectedAt[3]
    /\ hist.refreshes = 1

\* two events with a path, the second more than 300ms after the first
TwoApart ==
    /\ Len(hist.arrivedAt) = 2
    /\ hist.arrivedAt[2] - hist.arrivedAt[1] > DebounceMs

\* C7 as stated: two events that arrive more than 300ms apart get two
\* NeedsRefresh, wherever the polls fall.
C7_TwoSignalsForEveryPlacement ==
    (TwoApart /\ Settled) => hist.refreshes = 2

\* C7: two events that arrive more than 300ms apart get two NeedsRefresh if
\* and only if the loop polls at least 300ms after the poll that collected
\* the first and before the second arrives; otherwise they get one.  Never
\* more than two.
C7_TwoSignalsIfPolledQuiet ==
    TwoApart => /\ hist.refreshes <= 2
                /\ Settled => hist.refreshes = IF hist.polledQuiet THEN 2 ELSE 1

\* both cases of the amended statement happen: here the quiet poll
C7_Witness ==
    /\ TwoApart
    /\ Settled
    /\ hist.polledQuiet
    /\ hist.refreshes = 2

\* a step of check_for_changes: the loop is at its top, the clock stands and
\* the notify thread sends nothing
PollStep == pcWatch = "top" /\ now' = now /\ hist'.sent = hist.sent

\* the paths of the events queued on the channel
QueuedPaths ==
    IF ~IsSome(watch.watcher) THEN {}
    ELSE LET receiver == Unwrap(watch.watcher).receiver
         IN  UNION {{receiver[i].paths[k] : k \in 1..Len(receiver[i].paths)} :
                        i \in {j \in 1..Len(receiver) : receiver[j].ok}}

\* the time since the last poll that collected an event with a path, as of
\* the end of this step
SinceLastObserved == now - hist'.collectedAt[Len(hist'.collectedAt)]

\* C32: check_for_changes returns None exactly when the pending set (with
\* the paths just collected) is empty, Pending exactly when it is not empty
\* and less than 300ms have passed since the last poll that observed a path,
\* NeedsRefresh exactly when it is not empty and at least 300ms have passed;
\* when it returns NeedsRefresh the pending set is empty and the timer is
\* cleared, otherwise the pending set holds the old and the collected paths.
C32_ResultFollowsPendingAndTimer ==
    [][PollStep =>
         LET pending == watch.pending_changed_paths \cup QueuedPaths IN
         /\ changeResult' \in {"None", "Pending", "NeedsRefresh"}
         /\ changeResult' = "None" <=> pending = {}
         /\ changeResult' = "Pending" <=>
                (pending # {} /\ SinceLastObserved < DebounceMs)
         /\ changeResult' = "NeedsRefresh" <=>
                (pending # {} /\ SinceLastObserved >= DebounceMs)
         /\ IF changeResult' = "NeedsRefresh"
              THEN /\ watch'.pending_changed_paths = {}
                   /\ watch'.last_change_detected = None
              ELSE watch'.pending_changed_paths = pending]_vars

\* NeedsRefresh was just returned, 300ms or more after the second of two
\* polls that observed paths; the pending set is empty and the timer cleared
C32_Witness ==
    /\ pcWatch = "rescan"
    /\ changeResult = "NeedsRefresh"
    /\ Len(hist.collectedAt) >= 2
    /\ hist.collectedAt[1] < hist.collectedAt[Len(hist.collectedAt)]
    /\ now - hist.collectedAt[Len(hist.collectedAt)] >= DebounceMs
    /\ watch.pending_changed_paths = {}
    /\ watch.last_change_detected = None

\* the channel holds results, and none of them is an event with a path
OnlyEmptyResultsQueued ==
    /\ IsSome(watch.watcher)
    /\ Unwrap(watch.watcher).receiver # <<>>
    /\ \A i \in 1..Len(Unwrap(watch.watcher).receiver) :
          ~CarriesPath(Unwrap(watch.watcher).receiver[i])

\* C40: a poll that finds only error results and events without paths on the
\* channel consumes them without effect: the pending set and the timer stay
\* as they are, the result is None if nothing was pending, and NeedsRefresh
\* only if paths were pending and their 300ms had passed already; no result
\* other than None, Pending and NeedsRefresh comes of it.  Every poll
\* returns with the channel empty of what was queued.
C40_EmptyResultsConsumedWithoutEffect ==
    [][(PollStep /\ IsSome(watch.watcher)) =>
         /\ IsSome(watch'.watcher)
         /\ Unwrap(watch'.watcher).receiver = <<>>
         /\ pcWatch' \in {"top", "rescan"}
         /\ OnlyEmptyResultsQueued =>
               /\ changeResult' \in {"None", "Pending", "NeedsRefresh"}
               /\ (watch.pending_changed_paths = {}) =>
                     /\ changeResult' = "None"
                     /\ watch'.pending_changed_paths = {}
                     /\ watch'.last_change_detected = watch.last_change_detected
               /\ IF changeResult' = "NeedsRefresh"
                    THEN /\ watch.pending_changed_paths # {}
                         /\ IsSome(watch.last_change_detected)
                         /\ now - Unwrap(watch.last_change_detected) >= DebounceMs
                    ELSE /\ watch'.pending_changed_paths = watch.pending_changed_paths
                         /\ watch'.last_change_detected = watch.last_change_detected]_vars

\* the notify thread sent only error results and events without paths, the
\* loop polled them all away, and nothing is pending and no timer runs
C40_Witness ==
    /\ IsSome(watch.watcher)
    /\ hist.sent >= 2
    /\ hist.arrivedAt = <<>>
    /\ Unwrap(watch.watcher).receiver = <<>>
    /\ watch.pending_changed_paths = {}
    /\ watch.last_change_detected = None
    /\ changeResult = "None"
    /\ hist.refreshes = 0

\* C37: every event with a path that the notify thread sends, at any time
\* (during a rescan, right after a NeedsRefresh), is followed by a
\* NeedsRefresh returned after the event was sent: the n-th such event by a
\* NeedsRefresh that has at least n of them behind it.
C37_NoNotificationLost ==
    \A n \in 1..(MaxEvents + 1) :
        (Len(hist.arrivedAt) >= n) ~> (hist.answered >= n)

\* two events with a path and nothing else were sent and two NeedsRefresh
\* returned: the second event was sent after the first NeedsRefresh (the poll
\* that returned it left the channel empty), during the rescan or later, and
\* the second NeedsRefresh answers it
C37_Witness ==
    /\ hist.sent = 2
    /\ Len(hist.arrivedAt) = 2
    /\ hist.refreshes = 2
    /\ hist.answered = 2
    /\ changeResult = "NeedsRefresh"
    /\ pcWatch = "rescan"

\* a step of check_for_changes in SpecWatchFair: as PollStep, something
\* has changed and no Instant that is kept has moved back
FairPollStep ==
    /\ PollStep
    /\ watchVars' # watchVars
    /\ hist'.arrivedAt = hist.arrivedAt
    /\ SubSeq(hist'.collectedAt, 1, Len(hist.collectedAt)) = hist.collectedAt
    /\ watch'.last_change_detected \in {watch.last_change_detected, None, Some(now)}

\* C38: with the loop polling on, a pending set that is not empty does not
\* stay so for ever: NeedsRefresh is returned and empties it; a poll returns
\* NeedsRefresh if paths are pending and 300ms or more have passed since the
\* last poll that observed paths, and only then (never while paths keep
\* being observed less than 300ms apart).
C38_PendingLeadsToRefresh ==
    /\ (watch.pending_changed_paths # {}) ~>
           (changeResult = "NeedsRefresh" /\ watch.pending_changed_paths = {})
    /\ [][FairPollStep =>
            (changeResult' = "NeedsRefresh" <=>
                 /\ watch.pending_changed_paths \cup QueuedPaths # {}
                 /\ SinceLastObserved >= DebounceMs)]_vars

\* three events with a path were sent and observed, the pending set was not
\* empty meanwhile, and a single NeedsRefresh, returned in the end, has
\* emptied it
C38_Witness ==
    /\ Len(hist.collectedAt) = 3
    /\ hist.sent = 3
    /\ hist.refreshes = 1
    /\ hist.answered = 3
    /\ changeResult = "NeedsRefresh"
    /\ pcWatch = "rescan"
    /\ watch.pending_changed_paths = {}

====
